---- MODULE Spec2Model ----
(***************************************************************************)
(* Zenmius: the encrypted vault (src/main/vault-manager.ts), the record    *)
(* store's import/export (src/main/db-manager.ts) and the git-backed sync  *)
(* (src/main/git-manager.ts), for two installations that share one remote, *)
(* with the renderer handlers that drive them (App.tsx, VaultView.tsx,    *)
(* the Sync view).                                                         *)
(*                                                                         *)
(* Cryptography is symbolic: crypto_pwhash is an injective pairing of      *)
(* password and salt, crypto_secretbox_easy yields a box that opens only   *)
(* under the same key and nonce.  to_hex / from_hex are inverse bijections *)
(* on byte strings and are not represented.                                *)
(***************************************************************************)
EXTENDS Naturals, FiniteSets, Sequences, TLC

VARIABLES
    vault,   \* per installation: masterKey, VAULT_PATH and METADATA_PATH contents
    db,      \* per installation: the SQLite tables of DatabaseManager
    repo,    \* per installation: SYNC_DIR (git metadata, working tree)
    sync,    \* per git:sync call slot: the call in flight (position in runSync)
    remote,  \* the shared git remote: the commit refs/heads/main points to
    fs,      \* the environment: whether writeFileSync may throw
    ui,      \* per installation: the renderer (store flags, component state)
    ssh,     \* SSHSessionManager: its three maps and the Client objects it created
    last     \* the last IPC / method call: its arguments, result and pre-state

vars == <<vault, db, repo, sync, remote, fs, ui, ssh, last>>

---------------------------------------------------------------------------
(* Bounds of the model *)

MaxSalt == 2
MaxNonce == 1
MaxTime == 1
MaxSyncs == 2
MaxClones == 1
MaxMounts == 1
MaxAuthCalls == 6
MaxConns == 2

Instances == {"A", "B"}

\* git:sync has no queue: a second call on an installation runs in its own slot
Slots == Instances \cup {"A2"}
Home(k) == IF k = "A2" THEN "A" ELSE k
Passwords == {"old", "new"}
Salts == 1..MaxSalt
Nonces == 1..MaxNonce
Times == 1..MaxTime
HostIds == {"hostA", "hostB"}
Undefined == "undefined"
Absent == "absent"
Usernames == {"root", Undefined}
HostPasswords == {"x"}
SecretIds == {"s1"}

---------------------------------------------------------------------------
(* JavaScript values that travel through the vault *)

NoData == [t |-> "none"]

MkDoc(t, hasHosts, hosts, secrets) ==
    [t |-> t, hasHosts |-> hasHosts, hosts |-> hosts, secrets |-> secrets]

\* [] : what decryptVault returns when there is no envelope
EmptyArray == MkDoc("array", FALSE, {}, {})
\* { hosts: {} } : the default saveCredential / getCredential fall back to
EmptyHosts == MkDoc("object", TRUE, {}, {})
\* {} : the default runSync falls back to when loadDirect fails
EmptyObject == MkDoc("object", FALSE, {}, {})
UndefinedValue == MkDoc("undefined", FALSE, {}, {})
NullValue == MkDoc("null", FALSE, {}, {})

Credential(hostId, username, password, updatedAt) ==
    [hostId |-> hostId, username |-> username, password |-> password,
     updatedAt |-> updatedAt]

\* JSON.stringify drops the properties whose value is undefined
StripEntry(e) ==
    IF e.username = Undefined THEN [e EXCEPT !.username = Absent] ELSE e

StripDoc(d) == [d EXCEPT !.hosts = {StripEntry(e) : e \in d.hosts}]

StripValue(v) ==
    IF v.t = "payload" THEN [v EXCEPT !.vault = StripDoc(v.vault)]
    ELSE IF v.t \in {"array", "object", "null", "undefined"} THEN StripDoc(v)
    ELSE v

NoText == [x |-> "none"]
EmptyText == [x |-> "empty"]
Garbage == [x |-> "garbage"]
NoFile == [x |-> "nofile"]

\* JSON.stringify(undefined) is undefined, not a string
JSONstringify(v) ==
    IF v.t = "undefined" THEN NoText ELSE [x |-> "json", v |-> StripValue(v)]

JSONparses(text) == text.x = "json"

JSONparse(text) == text.v

IsJSON(v) == v.t # "undefined" /\ StripValue(v) = v

---------------------------------------------------------------------------
(* libsodium *)

NoKey == [pw |-> "null", salt |-> 0]

crypto_pwhash(password, salt) == [pw |-> password, salt |-> salt]

Keys == {crypto_pwhash(p, s) : p \in Passwords, s \in Salts}

\* crypto_secretbox_easy throws on a message that is not a string / bytes
secretbox_accepts(msg) == msg.x # "none"

crypto_secretbox_easy(msg, nonce, key) == [key |-> key, nonce |-> nonce, msg |-> msg]

secretbox_opens(box, nonce, key) == box.key = key /\ box.nonce = nonce

Envelope(nonce, box) == [t |-> "envelope", nonce |-> nonce, ciphertext |-> box]

---------------------------------------------------------------------------
(* Results of handlers *)

Ok(data) == [success |-> TRUE, error |-> "", data |-> data]

Fail(error) == [success |-> FALSE, error |-> error, data |-> NoData]

---------------------------------------------------------------------------
(* VaultManager (src/main/vault-manager.ts).  A vault value v holds          *)
(* masterKey, vaultFile (VAULT_PATH) and metaFile (METADATA_PATH); a method  *)
(* that writes returns [v |-> the vault afterwards, res |-> its result].     *)

MkVault(masterKey, vaultFile, metaFile) ==
    [masterKey |-> masterKey, vaultFile |-> vaultFile, metaFile |-> metaFile]

\* the outcomes of one fs.writeFileSync: TRUE = written, FALSE = thrown
WriteOutcomes == IF fs.faults THEN BOOLEAN ELSE {TRUE}

status(v) == [locked |-> v.masterKey = NoKey]

\* encryptData without the check for a key in memory
encryptData_noLockCheck(masterKey, data, nonce) ==
    IF ~secretbox_accepts(JSONstringify(data)) THEN Fail("TypeError")
    ELSE Ok(Envelope(nonce, crypto_secretbox_easy(JSONstringify(data), nonce, masterKey)))

encryptData(masterKey, data, nonce) ==
    IF masterKey = NoKey THEN Fail("Vault Locked")
    ELSE IF ~secretbox_accepts(JSONstringify(data)) THEN Fail("TypeError")
    ELSE Ok(Envelope(nonce, crypto_secretbox_easy(JSONstringify(data), nonce, masterKey)))

\* decryptData returning the decrypted text without JSON.parse
decryptData_noParse(masterKey, payload) ==
    IF masterKey = NoKey THEN Fail("Vault Locked")
    ELSE IF payload.t # "envelope" THEN Fail("TypeError")
    ELSE IF ~secretbox_opens(payload.ciphertext, payload.nonce, masterKey)
         THEN Fail("wrong secret key for the given ciphertext")
    ELSE Ok(payload.ciphertext.msg)

decryptData(masterKey, payload) ==
    IF masterKey = NoKey THEN Fail("Vault Locked")
    ELSE IF payload.t # "envelope" THEN Fail("TypeError")
    ELSE IF ~secretbox_opens(payload.ciphertext, payload.nonce, masterKey)
         THEN Fail("wrong secret key for the given ciphertext")
    ELSE IF ~JSONparses(payload.ciphertext.msg) THEN Fail("SyntaxError")
    ELSE Ok(JSONparse(payload.ciphertext.msg))

VaultDecryptError == "Master Password verification failed or vault corrupted."

\* decryptVault without the check for an empty file
decryptVault_noEmptyCheck(masterKey, vaultFile) ==
    IF masterKey = NoKey THEN Fail("Vault locked")
    ELSE IF vaultFile = NoFile THEN Ok(EmptyArray)
    ELSE IF ~JSONparses(vaultFile) THEN Fail("Vault JSON corrupted")
    ELSE IF JSONparse(vaultFile).t # "envelope" THEN Fail(VaultDecryptError)
    ELSE IF ~secretbox_opens(JSONparse(vaultFile).ciphertext,
                             JSONparse(vaultFile).nonce, masterKey)
         THEN Fail(VaultDecryptError)
    ELSE IF ~JSONparses(JSONparse(vaultFile).ciphertext.msg) THEN Fail(VaultDecryptError)
    ELSE Ok(JSONparse(JSONparse(vaultFile).ciphertext.msg))

decryptVault(masterKey, vaultFile) ==
    IF masterKey = NoKey THEN Fail("Vault locked")
    ELSE IF vaultFile = NoFile THEN Ok(EmptyArray)
    ELSE IF vaultFile = EmptyText THEN Ok(EmptyArray)
    ELSE IF ~JSONparses(vaultFile) THEN Fail("Vault JSON corrupted")
    ELSE IF JSONparse(vaultFile).t # "envelope" THEN Fail(VaultDecryptError)
    ELSE IF ~secretbox_opens(JSONparse(vaultFile).ciphertext,
                             JSONparse(vaultFile).nonce, masterKey)
         THEN Fail(VaultDecryptError)
    ELSE IF ~JSONparses(JSONparse(vaultFile).ciphertext.msg) THEN Fail(VaultDecryptError)
    ELSE Ok(JSONparse(JSONparse(vaultFile).ciphertext.msg))

loadDirect(v) == decryptVault(v.masterKey, v.vaultFile)

\* the envelope file a save writes: JSON.stringify({nonce, ciphertext})
SealedFile(data, nonce, key) ==
    JSONstringify(Envelope(nonce, crypto_secretbox_easy(JSONstringify(data), nonce, key)))

\* saveDirect that keeps the host entries of the document on disk
saveDirect_keepsHosts(v, data, nonce, w) ==
    LET current == decryptVault(v.masterKey, v.vaultFile)
        kept == IF current.success /\ current.data.t = "object" /\ data.t = "object"
                THEN [data EXCEPT !.hasHosts = TRUE,
                                  !.hosts = @ \cup {e \in current.data.hosts :
                                                     \A f \in data.hosts : f.hostId # e.hostId}]
                ELSE IF current.success /\ current.data.t = "object" /\ data.t = "array"
                THEN current.data
                ELSE data
    IN  IF v.masterKey = NoKey THEN [v |-> v, res |-> Fail("Vault Locked")]
        ELSE IF ~secretbox_accepts(JSONstringify(data)) \/ ~w
             THEN [v |-> v, res |-> Fail("Failed to save vault")]
        ELSE [v |-> [v EXCEPT !.vaultFile = SealedFile(kept, nonce, v.masterKey)],
              res |-> Ok(NoData)]

saveDirect(v, data, nonce, w) ==
    IF v.masterKey = NoKey THEN [v |-> v, res |-> Fail("Vault Locked")]
    ELSE IF ~secretbox_accepts(JSONstringify(data)) \/ ~w
         THEN [v |-> v, res |-> Fail("Failed to save vault")]
    ELSE [v |-> [v EXCEPT !.vaultFile = SealedFile(data, nonce, v.masterKey)],
          res |-> Ok(NoData)]

MetaHasSalt(metaFile) ==
    /\ metaFile # NoFile
    /\ metaFile # EmptyText
    /\ JSONparses(metaFile)
    /\ JSONparse(metaFile).t = "meta"

MetaFile(salt) == JSONstringify([t |-> "meta", salt |-> salt])

\* getSalt creating a new salt on every call
getSalt_alwaysFresh(metaFile, fresh, w) ==
    [salt |-> fresh, metaFile |-> IF w THEN MetaFile(fresh) ELSE metaFile]

\* read the persisted salt, or create one and try to persist it
getSalt(metaFile, fresh, w) ==
    IF MetaHasSalt(metaFile) THEN [salt |-> JSONparse(metaFile).salt, metaFile |-> metaFile]
    ELSE [salt |-> fresh, metaFile |-> IF w THEN MetaFile(fresh) ELSE metaFile]

\* vault:init without the verification against the existing envelope
vaultInit_noVerify(v, password, fresh, w) ==
    LET got == getSalt(v.metaFile, fresh, w)
    IN  [v |-> MkVault(crypto_pwhash(password, got.salt), v.vaultFile, got.metaFile),
         res |-> Ok(NoData)]

\* vault:init that reports the failure but keeps the derived key
vaultInit_keepsKey(v, password, fresh, w) ==
    LET got == getSalt(v.metaFile, fresh, w)
        key == crypto_pwhash(password, got.salt)
        loadResult == decryptVault(key, v.vaultFile)
    IN  IF v.vaultFile # NoFile /\ ~loadResult.success
        THEN [v |-> MkVault(key, v.vaultFile, got.metaFile),
              res |-> Fail("Invalid Master Password (or corrupted vault)")]
        ELSE [v |-> MkVault(key, v.vaultFile, got.metaFile), res |-> Ok(NoData)]

\* vault:init that leaves the key of before the call in place when it fails
vaultInit_keepsOldKey(v, password, fresh, w) ==
    LET got == getSalt(v.metaFile, fresh, w)
        key == crypto_pwhash(password, got.salt)
        loadResult == decryptVault(key, v.vaultFile)
    IN  IF v.vaultFile # NoFile /\ ~loadResult.success
        THEN [v |-> MkVault(v.masterKey, v.vaultFile, got.metaFile),
              res |-> Fail("Invalid Master Password (or corrupted vault)")]
        ELSE [v |-> MkVault(key, v.vaultFile, got.metaFile), res |-> Ok(NoData)]

\* vault:init that persists a new salt when the verification fails
vaultInit_resalts(v, password, fresh, w) ==
    LET got == getSalt(v.metaFile, fresh, w)
        key == crypto_pwhash(password, got.salt)
        loadResult == decryptVault(key, v.vaultFile)
    IN  IF v.vaultFile # NoFile /\ ~loadResult.success
        THEN [v |-> MkVault(NoKey, v.vaultFile, MetaFile(fresh)),
              res |-> Fail("Invalid Master Password (or corrupted vault)")]
        ELSE [v |-> MkVault(key, v.vaultFile, got.metaFile), res |-> Ok(NoData)]

\* ipcMain.handle('vault:init')
vaultInit(v, password, fresh, w) ==
    LET got == getSalt(v.metaFile, fresh, w)
        key == crypto_pwhash(password, got.salt)
        loadResult == decryptVault(key, v.vaultFile)
    IN  IF v.vaultFile # NoFile /\ ~loadResult.success
        THEN [v |-> MkVault(NoKey, v.vaultFile, got.metaFile),
              res |-> Fail("Invalid Master Password (or corrupted vault)")]
        ELSE [v |-> MkVault(key, v.vaultFile, got.metaFile), res |-> Ok(NoData)]

\* (current.success && current.data && typeof current.data === 'object'
\*  && !Array.isArray(current.data)) ? current.data : { hosts: {} }
ObjectOrDefault(current) ==
    IF current.success /\ current.data.t = "object" THEN current.data ELSE EmptyHosts

\* an update that adds the entry and keeps the old entry of the host
SetHost_appends(data, cred) ==
    [data EXCEPT !.hasHosts = TRUE, !.hosts = @ \cup {cred}]

\* data.hosts[hostId] = cred, after if (!data.hosts) data.hosts = {}
SetHost(data, cred) ==
    [data EXCEPT !.hasHosts = TRUE,
                 !.hosts = {e \in data.hosts : e.hostId # cred.hostId} \cup {cred}]

\* ipcMain.handle('vault:save-credential')
saveCredential(v, hostId, password, username, now, nonce, w) ==
    LET current == decryptVault(v.masterKey, v.vaultFile)
        data == SetHost(ObjectOrDefault(current),
                        Credential(hostId, username, password, now))
    IN  IF v.masterKey = NoKey THEN [v |-> v, res |-> Fail("Vault locked")]
        ELSE IF ~w THEN [v |-> v, res |-> Fail("write failed")]
        ELSE [v |-> [v EXCEPT !.vaultFile = SealedFile(data, nonce, v.masterKey)],
              res |-> Ok(NoData)]

\* data.hosts?.[hostId] || null, as a set of at most one entry
HostEntry(data, hostId) == {e \in data.hosts : e.hostId = hostId}

\* ipcMain.handle('vault:get-credential')
getCredential(v, hostId) ==
    LET current == decryptVault(v.masterKey, v.vaultFile)
    IN  IF v.masterKey = NoKey THEN Fail("Vault locked")
        ELSE IF ~current.success THEN current
        ELSE Ok([t |-> "credential",
                 credential |-> HostEntry(ObjectOrDefault(current), hostId)])

\* vault:change-password that forgets to persist the new salt
changePassword_oldSalt(v, newPassword, newSalt, nonce, w1, w2) ==
    LET currentData == decryptVault(v.masterKey, v.vaultFile)
        newMasterKey == crypto_pwhash(newPassword, newSalt)
        written == SealedFile(currentData.data, nonce, newMasterKey)
    IN  IF v.masterKey = NoKey
        THEN [v |-> v, res |-> Fail("Vault must be unlocked first")]
        ELSE IF ~currentData.success
        THEN [v |-> v, res |-> Fail("Failed to decrypt current vault")]
        ELSE [v |-> MkVault(newMasterKey, written, v.metaFile), res |-> Ok(NoData)]

\* vault:change-password that drops the key from memory once it has saved
changePassword_thenLocks(v, newPassword, newSalt, nonce, w1, w2) ==
    LET currentData == decryptVault(v.masterKey, v.vaultFile)
        newMasterKey == crypto_pwhash(newPassword, newSalt)
        written == SealedFile(currentData.data, nonce, newMasterKey)
    IN  IF v.masterKey = NoKey
        THEN [v |-> v, res |-> Fail("Vault must be unlocked first")]
        ELSE IF ~currentData.success
        THEN [v |-> v, res |-> Fail("Failed to decrypt current vault")]
        ELSE IF ~w1 THEN [v |-> v, res |-> Fail("write failed")]
        ELSE IF ~w2 THEN [v |-> [v EXCEPT !.vaultFile = written],
                          res |-> Fail("write failed")]
        ELSE [v |-> MkVault(NoKey, written, MetaFile(newSalt)), res |-> Ok(NoData)]

\* ipcMain.handle('vault:change-password'); w1 is the write of VAULT_PATH,
\* w2 the write of METADATA_PATH that follows it
changePassword(v, newPassword, newSalt, nonce, w1, w2) ==
    LET currentData == decryptVault(v.masterKey, v.vaultFile)
        newMasterKey == crypto_pwhash(newPassword, newSalt)
        written == SealedFile(currentData.data, nonce, newMasterKey)
    IN  IF v.masterKey = NoKey
        THEN [v |-> v, res |-> Fail("Vault must be unlocked first")]
        ELSE IF ~currentData.success
        THEN [v |-> v, res |-> Fail("Failed to decrypt current vault")]
        ELSE IF ~w1 THEN [v |-> v, res |-> Fail("write failed")]
        ELSE IF ~w2 THEN [v |-> [v EXCEPT !.vaultFile = written],
                          res |-> Fail("write failed")]
        ELSE [v |-> MkVault(newMasterKey, written, MetaFile(newSalt)),
              res |-> Ok(NoData)]

\* vault:save without the check of masterKey
vaultSave_noLockCheck(v, data, nonce, w) ==
    IF ~secretbox_accepts(JSONstringify(data)) \/ ~w
    THEN [v |-> v, res |-> Fail("Failed to save vault")]
    ELSE [v |-> [v EXCEPT !.vaultFile = SealedFile(data, nonce, v.masterKey)],
          res |-> Ok(NoData)]

\* ipcMain.handle('vault:save')
vaultSave(v, data, nonce, w) ==
    IF v.masterKey = NoKey THEN [v |-> v, res |-> Fail("Vault locked")]
    ELSE IF ~secretbox_accepts(JSONstringify(data)) \/ ~w
         THEN [v |-> v, res |-> Fail("Failed to save vault")]
    ELSE [v |-> [v EXCEPT !.vaultFile = SealedFile(data, nonce, v.masterKey)],
          res |-> Ok(NoData)]

\* ipcMain.handle('vault:load')
vaultLoad(v) == decryptVault(v.masterKey, v.vaultFile)

\* ipcMain.handle('vault:lock')
vaultLock(v) == [v |-> [v EXCEPT !.masterKey = NoKey], res |-> Ok(NoData)]

---------------------------------------------------------------------------
(* The state after construction: a fresh installation has no files, an      *)
(* empty record store, no sync directory and a locked vault.                *)

NoCall == [op |-> "none", inst |-> "A", pw |-> "", hostId |-> "", data |-> NoData,
           res |-> Ok(NoData), pre |-> MkVault(NoKey, NoFile, NoFile)]

Call(op, i, pw, hostId, data, res) ==
    [op |-> op, inst |-> i, pw |-> pw, hostId |-> hostId, data |-> data,
     res |-> res, pre |-> vault[i]]

FreshVault == MkVault(NoKey, NoFile, NoFile)

---------------------------------------------------------------------------
(* Inputs *)

\* documents the renderer hands to vault:save (VaultView add / delete secret,
\* and values that are not JSON documents)
SaveInputs(v) ==
    LET current == decryptVault(v.masterKey, v.vaultFile)
        loaded == IF current.success /\ current.data.t = "object"
                  THEN current.data ELSE EmptyHosts
    IN  { [loaded EXCEPT !.hasHosts = TRUE, !.secrets = S] : S \in SUBSET SecretIds }
        \cup { EmptyObject, UndefinedValue,
               MkDoc("object", TRUE, {Credential("hostA", Undefined, "x", 1)}, {}) }

\* values handed to encryptData and saveDirect: a document, a sync payload,
\* a value that is no JSON document
DataInputs ==
    { MkDoc("object", TRUE, {Credential("hostA", "root", "x", 1)}, {"s1"}),
      [t |-> "payload", db |-> [t |-> "db"], vault |-> EmptyArray],
      UndefinedValue }

\* envelopes handed to decryptData: sealed under the key in memory or under
\* another key, or malformed
PayloadInputs(v) ==
    { Envelope(n, crypto_secretbox_easy(JSONstringify(d), n, k)) :
        n \in Nonces,
        k \in ({v.masterKey} \ {NoKey}) \cup {crypto_pwhash(p, 1) : p \in Passwords},
        d \in DataInputs \ {UndefinedValue} }
    \cup { NoData }

---------------------------------------------------------------------------
(* Vault operations of installation i *)

VaultInit(i) ==
    \E password \in Passwords, fresh \in Salts, w \in WriteOutcomes :
        LET r == vaultInit(vault[i], password, fresh, w)
        IN  /\ vault' = [vault EXCEPT ![i] = r.v]
            /\ last' = Call("init", i, password, "", NoData, r.res)
            /\ UNCHANGED <<db, repo, sync, remote, fs, ui, ssh>>

VaultLock(i) ==
    LET r == vaultLock(vault[i])
    IN  /\ vault' = [vault EXCEPT ![i] = r.v]
        /\ last' = Call("lock", i, "", "", NoData, r.res)
        /\ UNCHANGED <<db, repo, sync, remote, fs, ui, ssh>>

SaveCredential(i) ==
    \E hostId \in HostIds, password \in HostPasswords, username \in Usernames,
       now \in Times, nonce \in Nonces, w \in WriteOutcomes :
        LET r == saveCredential(vault[i], hostId, password, username, now, nonce, w)
        IN  /\ vault' = [vault EXCEPT ![i] = r.v]
            /\ last' = Call("saveCredential", i, "", hostId,
                            MkDoc("object", TRUE,
                                  {Credential(hostId, username, password, now)}, {}),
                            r.res)
            /\ UNCHANGED <<db, repo, sync, remote, fs, ui, ssh>>

GetCredential(i) ==
    \E hostId \in HostIds :
        /\ last' = Call("getCredential", i, "", hostId, NoData,
                        getCredential(vault[i], hostId))
        /\ UNCHANGED <<vault, db, repo, sync, remote, fs, ui, ssh>>

ChangePassword(i) ==
    \E newPassword \in Passwords, newSalt \in Salts, nonce \in Nonces,
       w1 \in WriteOutcomes, w2 \in WriteOutcomes :
        LET r == changePassword(vault[i], newPassword, newSalt, nonce, w1, w2)
        IN  /\ vault' = [vault EXCEPT ![i] = r.v]
            /\ last' = Call("changePassword", i, newPassword, "", NoData, r.res)
            /\ UNCHANGED <<db, repo, sync, remote, fs, ui, ssh>>

VaultSave(i) ==
    \E data \in SaveInputs(vault[i]), nonce \in Nonces, w \in WriteOutcomes :
        LET r == vaultSave(vault[i], data, nonce, w)
        IN  /\ vault' = [vault EXCEPT ![i] = r.v]
            /\ last' = Call("save", i, "", "", data, r.res)
            /\ UNCHANGED <<db, repo, sync, remote, fs, ui, ssh>>

VaultLoad(i) ==
    /\ last' = Call("load", i, "", "", NoData, vaultLoad(vault[i]))
    /\ UNCHANGED <<vault, db, repo, sync, remote, fs, ui, ssh>>

SaveDirect(i) ==
    \E data \in DataInputs, nonce \in Nonces, w \in WriteOutcomes :
        LET r == saveDirect(vault[i], data, nonce, w)
        IN  /\ vault' = [vault EXCEPT ![i] = r.v]
            /\ last' = Call("saveDirect", i, "", "", data, r.res)
            /\ UNCHANGED <<db, repo, sync, remote, fs, ui, ssh>>

LoadDirect(i) ==
    /\ last' = Call("loadDirect", i, "", "", NoData, loadDirect(vault[i]))
    /\ UNCHANGED <<vault, db, repo, sync, remote, fs, ui, ssh>>

EncryptData(i) ==
    \E data \in DataInputs, nonce \in Nonces :
        /\ last' = Call("encryptData", i, "", "", data,
                        encryptData(vault[i].masterKey, data, nonce))
        /\ UNCHANGED <<vault, db, repo, sync, remote, fs, ui, ssh>>

DecryptData(i) ==
    \E payload \in PayloadInputs(vault[i]) :
        /\ last' = Call("decryptData", i, "", "", payload,
                        decryptData(vault[i].masterKey, payload))
        /\ UNCHANGED <<vault, db, repo, sync, remote, fs, ui, ssh>>

VaultNext(i) ==
    \/ VaultInit(i)
    \/ VaultLock(i)
    \/ SaveCredential(i)
    \/ GetCredential(i)
    \/ ChangePassword(i)
    \/ VaultSave(i)
    \/ VaultLoad(i)
    \/ SaveDirect(i)
    \/ LoadDirect(i)
    \/ EncryptData(i)
    \/ DecryptData(i)

---------------------------------------------------------------------------
(* DatabaseManager (src/main/db-manager.ts).  A table is a set of rows with *)
(* a unique id; cols stands for the other columns of the row (for hosts     *)
(* and snippets: tags, stored as JSON text and parsed back on export).      *)

RecordIds == {"r1", "r2"}
Cols == Instances
Row(id, cols) == [id |-> id, cols |-> cols]

NoSettings == [has |-> FALSE, theme |-> "", gitToken |-> ""]
Settings(theme, gitToken) == [has |-> TRUE, theme |-> theme, gitToken |-> gitToken]

MkDb(hosts, snippets, settings, remoteConnections) ==
    [t |-> "db", hosts |-> hosts, snippets |-> snippets, settings |-> settings,
     remoteConnections |-> remoteConnections]

EmptyDb == MkDb({}, {}, NoSettings, {})

Ids(table) == {row.id : row \in table}

\* INSERT OR IGNORE: a row whose id is in the table is left as it is
InsertOrReplace_keepsLocal(table, rows) ==
    table \cup {row \in rows : row.id \notin Ids(table)}

\* INSERT OR REPLACE INTO ... for every row of rows
InsertOrReplace(table, rows) ==
    {row \in table : row.id \notin Ids(rows)} \cup rows

\* a settings branch that drops the gitConfig token when the local one holds one
ImportSettings_clearsToken(current, incoming) ==
    IF ~incoming.has THEN current
    ELSE IF current.has /\ current.gitToken # ""
         THEN [incoming EXCEPT !.gitToken = ""]
    ELSE incoming

\* the settings branch: the local gitConfig survives when it holds a token
ImportSettings(current, incoming) ==
    IF ~incoming.has THEN current
    ELSE IF current.has /\ current.gitToken # ""
         THEN [incoming EXCEPT !.gitToken = current.gitToken]
    ELSE incoming

exportData(d) == MkDb(d.hosts, d.snippets, d.settings, d.remoteConnections)

\* importData that clears each table before inserting the imported rows
importData_replaceTables(d, data) ==
    IF data.t # "db" THEN d
    ELSE MkDb(data.hosts, data.snippets, ImportSettings(d.settings, data.settings),
              data.remoteConnections)

\* data that is not a record-store export has none of the four properties
importData(d, data) ==
    IF data.t # "db" THEN d
    ELSE MkDb(InsertOrReplace(d.hosts, data.hosts),
              InsertOrReplace(d.snippets, data.snippets),
              ImportSettings(d.settings, data.settings),
              InsertOrReplace(d.remoteConnections, data.remoteConnections))

---------------------------------------------------------------------------
(* GitManager (src/main/git-manager.ts).  SYNC_DIR holds .git (git, head),  *)
(* the payload file zenmius_db.enc (enc) and .git-credentials-cache.json    *)
(* (cache).  A commit is the tree it records, with the installation that    *)
(* made it and the mode and remote probe of the sync that made it.          *)
(* isomorphic-git is an external library: each of its calls either         *)
(* succeeds or throws one of GitErrors.                                     *)

Modes == {"push", "pull", "merge"}

Commit(enc, cache, by, mode, remoteHasData) ==
    [enc |-> enc, cache |-> cache, by |-> by, mode |-> mode, remoteHasData |-> remoteHasData]
NoCommit == Commit(NoFile, FALSE, "none", "none", FALSE)

MkRepo(git, head, enc, cache) == [git |-> git, head |-> head, enc |-> enc, cache |-> cache]
NoRepo == MkRepo(FALSE, NoCommit, NoFile, FALSE)

GitErrors == {"NotFoundError", "HttpError"}
GitOutcomes == {"ok"} \cup GitErrors

\* a catch block that takes every failure for a damaged working clone
SelfHealable_any(error) == TRUE

\* error.code === 'NotFoundError' || message.includes('HEAD') || message.includes('resolve')
SelfHealable(error) == error \in {"NotFoundError", "Could not resolve HEAD"}

CombinedPayload(dbData, vaultData) == [t |-> "payload", db |-> dbData, vault |-> vaultData]

\* decrypted.data.db && decrypted.data.vault
IsCombined(data) == data.t = "payload" /\ data.vault.t # "null"

\* Strings the auth callback works on, as sequences of pieces
RECURSIVE trimStart(_)
trimStart(str) == IF str # <<>> /\ Head(str) = " " THEN trimStart(Tail(str)) ELSE str

RECURSIVE trimEnd(_)
trimEnd(str) ==
    IF str # <<>> /\ str[Len(str)] = " " THEN trimEnd(SubSeq(str, 1, Len(str) - 1)) ELSE str

\* String.prototype.trim
trim(str) == trimEnd(trimStart(str))

\* String.prototype.toLowerCase on the pieces of a URL
toLowerCase(str) == [n \in 1..Len(str) |-> IF str[n] = "GitLab" THEN "gitlab" ELSE str[n]]

\* String.prototype.includes
includes(str, piece) == \E n \in 1..Len(str) : str[n] = piece

\* an optional string: explicitUsername may be undefined
Str(str) == [def |-> TRUE, str |-> str]
NoStr == [def |-> FALSE, str |-> <<>>]
\* a truthy string
Truthy(o) == o.def /\ o.str # <<>>

NoOffer == [username |-> <<>>, password |-> <<>>, none |-> TRUE]
Offer(username, password) == [username |-> username, password |-> password, none |-> FALSE]

NoAuth == [attempts |-> 0, trimmedToken |-> <<>>, trimmedUser |-> NoStr, url |-> <<>>,
           offered |-> NoOffer, made |-> FALSE]

\* getOnAuth(token, explicitUsername): the closure before its first call
getOnAuth(token, explicitUsername) ==
    [NoAuth EXCEPT !.trimmedToken = trim(token),
                   !.trimmedUser = IF explicitUsername.def
                                   THEN Str(trim(explicitUsername.str)) ELSE NoStr,
                   !.made = TRUE]

\* what the callback returns at its attempts-th call for url
candidate(a, attempts, url) ==
    LET isGitLab == includes(toLowerCase(url), "gitlab")
        hasUser == Truthy(a.trimmedUser)
    IN  IF hasUser /\ attempts = 1 THEN Offer(a.trimmedUser.str, a.trimmedToken)
        ELSE IF isGitLab
        THEN IF attempts = 1 \/ (hasUser /\ attempts = 2)
             THEN Offer(<<"oauth2">>, a.trimmedToken)
             ELSE IF attempts = 2 \/ (hasUser /\ attempts = 3)
             THEN Offer(<<"gitlab-token">>, a.trimmedToken)
             ELSE Offer(<<"git">>, a.trimmedToken)
        ELSE IF attempts = 1 \/ (hasUser /\ attempts = 2)
             THEN Offer(a.trimmedToken, <<>>)
             ELSE Offer(<<"token">>, a.trimmedToken)

\* the callback getOnAuth returns: attempts++ and the credentials for url
onAuth(a, url) ==
    [a EXCEPT !.attempts = @ + 1, !.url = url, !.offered = candidate(a, a.attempts + 1, url)]

IdleSync ==
    [pc |-> "idle", mode |-> "merge", retry |-> TRUE, remoteHasData |-> FALSE,
     force |-> FALSE, attempts |-> 0, wipes |-> 0, calls |-> 0, clones |-> 0,
     result |-> Ok(NoData), error |-> "",
     remoteAtStart |-> NoCommit, dbBefore |-> EmptyDb, imported |-> NoData,
     exported |-> NoData, exportKey |-> NoKey,
     encBefore |-> NoFile, vaultBefore |-> FreshVault, auth |-> NoAuth]

\* the catch block retrying without looking at the retry flag
catchSync_ignoresRetry(s, r, error) ==
    IF SelfHealable(error)
    THEN [s |-> [s EXCEPT !.pc = "init", !.retry = FALSE, !.attempts = @ + 1,
                          !.wipes = @ + 1, !.error = error],
          r |-> NoRepo]
    ELSE [s |-> [s EXCEPT !.pc = "failed", !.result = Fail(error), !.error = error],
          r |-> r]

\* the catch block calling runSync() again, with the retry allowed as before
catchSync_retriesAgain(s, r, error) ==
    IF SelfHealable(error)
    THEN [s |-> [s EXCEPT !.pc = "init", !.error = error], r |-> NoRepo]
    ELSE [s |-> [s EXCEPT !.pc = "failed", !.result = Fail(error), !.error = error],
          r |-> r]

\* the catch block of runSync: wipe SYNC_DIR and run once more, or fail
catchSync(s, r, error) ==
    IF s.retry /\ SelfHealable(error)
    THEN [s |-> [s EXCEPT !.pc = "init", !.retry = FALSE, !.attempts = @ + 1,
                          !.wipes = @ + 1, !.error = error],
          r |-> NoRepo]
    ELSE [s |-> [s EXCEPT !.pc = "failed", !.result = Fail(error), !.error = error],
          r |-> r]

\* an import step that empties the record store when the payload does not decrypt
importStep_resetsOnFailure(d, v, encFile, mode, nonce, w) ==
    LET decrypted == decryptData(v.masterKey, JSONparse(encFile))
    IN  IF encFile = NoFile \/ mode = "push"
        THEN [db |-> d, v |-> v, imported |-> NoData]
        ELSE IF ~JSONparses(encFile) \/ ~decrypted.success
        THEN [db |-> EmptyDb, v |-> v, imported |-> NoData]
        ELSE IF IsCombined(decrypted.data)
        THEN [db |-> importData(d, decrypted.data.db),
              v |-> saveDirect(v, decrypted.data.vault, nonce, w).v,
              imported |-> decrypted.data]
        ELSE [db |-> importData(d, decrypted.data), v |-> v, imported |-> decrypted.data]

\* step 5 of runSync (DATA IMPORT): the record store, the vault and what was imported
importStep(d, v, encFile, mode, nonce, w) ==
    LET decrypted == decryptData(v.masterKey, JSONparse(encFile))
    IN  IF encFile = NoFile \/ mode = "push" \/ ~JSONparses(encFile) \/ ~decrypted.success
        THEN [db |-> d, v |-> v, imported |-> NoData]
        ELSE IF IsCombined(decrypted.data)
        THEN [db |-> importData(d, decrypted.data.db),
              v |-> saveDirect(v, decrypted.data.vault, nonce, w).v,
              imported |-> decrypted.data]
        ELSE [db |-> importData(d, decrypted.data), v |-> v, imported |-> decrypted.data]

\* step 6 of runSync, up to encryptData: the payload and its encryption
exportPayload(d, v) ==
    CombinedPayload(exportData(d),
                    IF loadDirect(v).success THEN loadDirect(v).data ELSE EmptyObject)

\* writing the payload itself instead of the encryption result
payloadFile_plaintext(encResult, payload) == JSONstringify(payload)

\* fs.writeFileSync(ENC_DB_FILE, JSON.stringify(encResult.payload))
payloadFile(encResult, payload) == JSONstringify(encResult.data)

\* step 6 entered in every mode
commitAndPush_always(mode) == TRUE

\* 6. COMMIT & PUSH: if (mode === 'push' || mode === 'merge')
commitAndPush(mode) == mode = "push" \/ mode = "merge"

\* force: mode === 'push' || !remoteHasData
pushForce(mode, remoteHasData) == mode = "push" \/ ~remoteHasData

Running(s) == s.pc \in {"init", "probe", "pull", "import", "commit", "push"}

---------------------------------------------------------------------------
(* git:clone of installation i and git:sync in slot i *)

GitClone(i) ==
    /\ sync[i].pc = "idle"
    /\ sync[i].clones < MaxClones
    /\ sync' = [sync EXCEPT ![i].clones = @ + 1]
    /\ \E ok \in BOOLEAN :
        /\ repo' = [repo EXCEPT ![Home(i)] =
                      IF ok THEN MkRepo(TRUE, remote, remote.enc, TRUE) ELSE NoRepo]
        /\ last' = Call("clone", i, "", "", NoData,
                        IF ok THEN Ok(NoData) ELSE Fail("HttpError"))
    /\ UNCHANGED <<vault, db, remote, fs, ui, ssh>>

TotalCalls == sync["A"].calls + sync["B"].calls + sync["A2"].calls

\* git:sync up to the first call of runSync: the record of a call that is the
\* calls-th of its slot, made with or without url and token
startSync(calls, clones, v, r, mode, credentials) ==
    LET s == [IdleSync EXCEPT !.calls = calls, !.mode = mode, !.clones = clones,
                              !.remoteAtStart = remote]
    IN  IF ~credentials /\ ~r.cache
        THEN [s EXCEPT !.pc = "failed", !.result = Fail("Missing Credentials")]
        ELSE IF status(v).locked
        THEN [s EXCEPT !.pc = "failed", !.result = Fail("Vault is LOCKED")]
        ELSE [s EXCEPT !.pc = "init", !.attempts = 1]

\* the handler up to the first call of runSync
SyncStart(i) ==
    /\ \A j \in Slots : sync[j].pc = "idle"
    /\ TotalCalls < MaxSyncs
    /\ \E mode \in Modes, credentials \in BOOLEAN :
        sync' = [sync EXCEPT ![i] =
                    startSync(sync[i].calls + 1, sync[i].clones, vault[Home(i)],
                              repo[Home(i)], mode, credentials)]
    /\ UNCHANGED <<vault, db, repo, remote, fs, ui, last, ssh>>

\* 1. REPO INIT and 2. REMOTE CONFIG
SyncRepoInit(i) ==
    /\ sync[i].pc = "init"
    /\ IF repo[Home(i)].git
       THEN /\ sync' = [sync EXCEPT ![i].pc = "probe"]
            /\ UNCHANGED repo
       ELSE \E out \in GitOutcomes :
            IF out = "ok"
            THEN /\ repo' = [repo EXCEPT ![Home(i)] = MkRepo(TRUE, NoCommit, NoFile, FALSE)]
                 /\ sync' = [sync EXCEPT ![i].pc = "probe"]
            ELSE LET c == catchSync(sync[i], NoRepo, out)
                 IN  /\ repo' = [repo EXCEPT ![Home(i)] = c.r]
                     /\ sync' = [sync EXCEPT ![i] = c.s]
    /\ UNCHANGED <<vault, db, remote, fs, ui, last, ssh>>

\* 3. REMOTE CHECK: a failed listServerRefs leaves remoteHasData false
SyncProbe(i) ==
    /\ sync[i].pc = "probe"
    /\ \E ok \in BOOLEAN :
        sync' = [sync EXCEPT ![i].pc = "pull",
                             ![i].remoteHasData = ok /\ remote # NoCommit]
    /\ UNCHANGED <<vault, db, repo, remote, fs, ui, last, ssh>>

\* a PULL step that also runs in mode 'push'
SyncPull_alsoOnPush(i) ==
    /\ sync[i].pc = "pull"
    /\ sync' = [sync EXCEPT ![i].pc = "import"]
    /\ IF sync[i].remoteHasData
       THEN \E ok \in BOOLEAN :
            repo' = [repo EXCEPT ![Home(i)] =
                       IF ok THEN MkRepo(TRUE, remote, remote.enc, @.cache \/ remote.cache)
                       ELSE @]
       ELSE UNCHANGED repo
    /\ UNCHANGED <<vault, db, remote, fs, ui, last, ssh>>

\* 4. PULL: a failed pull is logged and the run goes on
SyncPull(i) ==
    /\ sync[i].pc = "pull"
    /\ sync' = [sync EXCEPT ![i].pc = "import"]
    /\ IF sync[i].remoteHasData /\ sync[i].mode # "push"
       THEN \E ok \in BOOLEAN :
            repo' = [repo EXCEPT ![Home(i)] =
                       IF ok THEN MkRepo(TRUE, remote, remote.enc, @.cache \/ remote.cache)
                       ELSE @]
       ELSE UNCHANGED repo
    /\ UNCHANGED <<vault, db, remote, fs, ui, last, ssh>>

\* the export gathered before the import is applied
SyncImportExport_exportsFirst(i) ==
    /\ sync[i].pc = "import"
    /\ \E n1 \in Nonces, n2 \in Nonces, w1 \in WriteOutcomes, w2 \in WriteOutcomes :
        LET imp == importStep(db[Home(i)], vault[Home(i)], repo[Home(i)].enc, sync[i].mode, n1, w1)
            payload == exportPayload(db[Home(i)], vault[Home(i)])
            encResult == encryptData(imp.v.masterKey, payload, n2)
            s == [sync[i] EXCEPT !.dbBefore = db[Home(i)], !.imported = imp.imported,
                                 !.encBefore = repo[Home(i)].enc,
                                 !.vaultBefore = vault[Home(i)]]
        IN  /\ db' = [db EXCEPT ![Home(i)] = imp.db]
            /\ vault' = [vault EXCEPT ![Home(i)] = imp.v]
            /\ IF ~commitAndPush(sync[i].mode)
               THEN /\ sync' = [sync EXCEPT ![i] = [s EXCEPT !.pc = "done"]]
                    /\ UNCHANGED repo
               ELSE IF ~encResult.success \/ ~w2
               THEN LET c == catchSync(s, repo[Home(i)],
                                       IF encResult.success THEN "EIO" ELSE encResult.error)
                    IN  /\ sync' = [sync EXCEPT ![i] = c.s]
                        /\ repo' = [repo EXCEPT ![Home(i)] = c.r]
               ELSE /\ sync' = [sync EXCEPT ![i] =
                                  [s EXCEPT !.pc = "commit", !.exported = payload,
                                            !.exportKey = imp.v.masterKey]]
                    /\ repo' = [repo EXCEPT ![Home(i)].enc = payloadFile(encResult, payload)]
    /\ UNCHANGED <<remote, fs, ui, last, ssh>>

\* 5. DATA IMPORT and 6. up to the write of ENC_DB_FILE: no await in between
\* yields to another handler
SyncImportExport(i) ==
    /\ sync[i].pc = "import"
    /\ \E n1 \in Nonces, n2 \in Nonces, w1 \in WriteOutcomes, w2 \in WriteOutcomes :
        LET imp == importStep(db[Home(i)], vault[Home(i)], repo[Home(i)].enc, sync[i].mode, n1, w1)
            payload == exportPayload(imp.db, imp.v)
            encResult == encryptData(imp.v.masterKey, payload, n2)
            s == [sync[i] EXCEPT !.dbBefore = db[Home(i)], !.imported = imp.imported,
                                 !.encBefore = repo[Home(i)].enc,
                                 !.vaultBefore = vault[Home(i)]]
        IN  /\ db' = [db EXCEPT ![Home(i)] = imp.db]
            /\ vault' = [vault EXCEPT ![Home(i)] = imp.v]
            /\ IF ~commitAndPush(sync[i].mode)
               THEN /\ sync' = [sync EXCEPT ![i] = [s EXCEPT !.pc = "done"]]
                    /\ UNCHANGED repo
               ELSE IF ~encResult.success \/ ~w2
               THEN LET c == catchSync(s, repo[Home(i)],
                                       IF encResult.success THEN "EIO" ELSE encResult.error)
                    IN  /\ sync' = [sync EXCEPT ![i] = c.s]
                        /\ repo' = [repo EXCEPT ![Home(i)] = c.r]
               ELSE /\ sync' = [sync EXCEPT ![i] =
                                  [s EXCEPT !.pc = "commit", !.exported = payload,
                                            !.exportKey = imp.v.masterKey]]
                    /\ repo' = [repo EXCEPT ![Home(i)].enc = payloadFile(encResult, payload)]
    /\ UNCHANGED <<remote, fs, ui, last, ssh>>

\* git add ., resolveRef HEAD, commit, writeRef HEAD.  "nothing" is the
\* NothingToCommitError branch: with a HEAD commit it commits nothing; without
\* one the staged tree holds the payload file, so the commit is made.
SyncCommit(i) ==
    /\ sync[i].pc = "commit"
    /\ \E out \in GitOutcomes \cup {"nothing"} :
        IF out = "ok" \/ (out = "nothing" /\ repo[Home(i)].head = NoCommit)
        THEN /\ repo' = [repo EXCEPT ![Home(i)].head =
                            Commit(repo[Home(i)].enc, repo[Home(i)].cache, Home(i), sync[i].mode,
                                   sync[i].remoteHasData)]
             /\ sync' = [sync EXCEPT ![i].pc = "push"]
        ELSE IF out = "nothing"
        THEN /\ repo[Home(i)].head.enc = repo[Home(i)].enc
             /\ repo[Home(i)].head.cache = repo[Home(i)].cache
             /\ sync' = [sync EXCEPT ![i].pc = "push"]
             /\ UNCHANGED repo
        ELSE LET c == catchSync(sync[i], repo[Home(i)], out)
             IN  /\ sync' = [sync EXCEPT ![i] = c.s]
                 /\ repo' = [repo EXCEPT ![Home(i)] = c.r]
    /\ UNCHANGED <<vault, db, remote, fs, ui, last, ssh>>

\* git push, then return { success: true }
SyncPush(i) ==
    /\ sync[i].pc = "push"
    /\ \E out \in GitOutcomes :
        LET s == [sync[i] EXCEPT !.force = pushForce(sync[i].mode, sync[i].remoteHasData)]
        IN  IF out = "ok"
            THEN /\ remote' = repo[Home(i)].head
                 /\ sync' = [sync EXCEPT ![i] = [s EXCEPT !.pc = "done"]]
                 /\ UNCHANGED repo
            ELSE LET c == catchSync(s, repo[Home(i)], out)
                 IN  /\ sync' = [sync EXCEPT ![i] = c.s]
                     /\ repo' = [repo EXCEPT ![Home(i)] = c.r]
                     /\ UNCHANGED remote
    /\ UNCHANGED <<vault, db, fs, ui, last, ssh>>

\* the handler returns its result to the renderer
SyncReturn(i) ==
    /\ sync[i].pc \in {"done", "failed"}
    /\ sync' = [sync EXCEPT ![i] = [IdleSync EXCEPT !.calls = sync[i].calls,
                                                    !.clones = sync[i].clones]]
    /\ UNCHANGED <<vault, db, repo, remote, fs, ui, last, ssh>>

SyncNext(i) ==
    \/ SyncStart(i)
    \/ SyncRepoInit(i)
    \/ SyncProbe(i)
    \/ SyncPull(i)
    \/ SyncImportExport(i)
    \/ SyncCommit(i)
    \/ SyncPush(i)
    \/ SyncReturn(i)

---------------------------------------------------------------------------
(* The renderer (src/renderer/src): the store's vaultLocked flag and the   *)
(* local state of the Sync view.                                           *)

\* vaultLocked is the store's flag (initially true).  view counts the mounts of
\* the Sync view; issuedBy is the mount that issued the git:sync call of a slot.
\* adding is the Vault view's addCredential between its vault:load and its
\* vault:save.  History: lockedByUser holds from a lock made in the App to
\* the next unlock through the unlock form; written holds the host and secret
\* ids whose write was reported as saved.
NotAdding == [phase |-> "idle", currentData |-> NoData, id |-> ""]

IdleUi ==
    [vaultLocked |-> TRUE, isSyncing |-> FALSE, view |-> 0,
     issuedBy |-> [k \in Slots |-> 0],
     adding |-> NotAdding, lockedByUser |-> FALSE, written |-> {}]

\* updateSettings({ gitConfig: { url, username, token } }) and db:update-settings
updateGitConfig(d, token) ==
    [d EXCEPT !.settings = Settings(IF @.has THEN @.theme ELSE "Indigo Night", token)]

\* SyncView.handleSyncAction up to the git:sync call it awaits; the buttons are
\* disabled while isSyncing.  Slot A2 serves a call made while slot A is busy.
HandleSyncAction(k) ==
    /\ ~ui[Home(k)].isSyncing
    /\ sync[k].pc = "idle"
    /\ k = "A2" => sync["A"].pc # "idle"
    /\ TotalCalls < MaxSyncs
    /\ \E mode \in Modes :
        sync' = [sync EXCEPT ![k] =
                    startSync(sync[k].calls + 1, sync[k].clones, vault[Home(k)],
                              repo[Home(k)], mode, TRUE)]
    /\ ui' = [ui EXCEPT ![Home(k)].isSyncing = TRUE,
                        ![Home(k)].issuedBy[k] = ui[Home(k)].view]
    /\ db' = [db EXCEPT ![Home(k)] = updateGitConfig(@, Home(k))]
    /\ UNCHANGED <<vault, repo, remote, fs, last, ssh>>

\* git:sync returns to handleSyncAction: setIsSyncing(false) reaches the view
\* only if the component that made the call is still mounted
HandleSyncReturn(k) ==
    /\ sync[k].pc \in {"done", "failed"}
    /\ sync' = [sync EXCEPT ![k] = [IdleSync EXCEPT !.calls = sync[k].calls,
                                                    !.clones = sync[k].clones]]
    /\ ui' = [ui EXCEPT ![Home(k)].isSyncing =
                            IF ui[Home(k)].issuedBy[k] = ui[Home(k)].view THEN FALSE ELSE @]
    /\ UNCHANGED <<vault, db, repo, remote, fs, last, ssh>>

\* the user leaves the Sync tab and comes back: a new SyncView, useState(false)
SyncViewMount(i) ==
    /\ ui[i].view < MaxMounts
    /\ ui' = [ui EXCEPT ![i].view = @ + 1, ![i].isSyncing = FALSE]
    /\ UNCHANGED <<vault, db, repo, sync, remote, fs, last, ssh>>

---------------------------------------------------------------------------
(* The App component, the Vault view and the Settings view.  A renderer     *)
(* handler that awaits several IPC calls is one action when the calls       *)
(* follow each other without another handler in between, and one action per *)
(* call where the claim is about what happens in between.                  *)

\* the password App.tsx passes to vault:init on the user's behalf
DefaultPassword == "zendemo"

\* what the unlock form can be given
FormPasswords == Passwords \cup {DefaultPassword}

\* status.initialized: vault:status returns { locked } only
Initialized(st) == FALSE

\* App useEffect initVault, run on mount and whenever activeTheme or loadData
\* changes
AppInitVault(i) ==
    /\ \E fresh \in Salts, w \in WriteOutcomes :
           LET st == status(vault[i])
               r == vaultInit(vault[i], DefaultPassword, fresh, w)
           IN  IF ~Initialized(st) \/ st.locked
               THEN /\ vault' = [vault EXCEPT ![i] = r.v]
                    /\ ui' = [ui EXCEPT ![i].vaultLocked = ~r.res.success]
                    /\ last' = Call("appInit", i, DefaultPassword, "", NoData, r.res)
               ELSE /\ ui' = [ui EXCEPT ![i].vaultLocked = FALSE]
                    /\ last' = Call("appInit", i, "", "", NoData, Ok(NoData))
                    /\ UNCHANGED vault
    /\ UNCHANGED <<db, repo, sync, remote, fs, ssh>>

\* the lock button of the header and the inactivity timer: both act only
\* while the store says the vault is unlocked
AppLock(i) ==
    /\ ~ui[i].vaultLocked
    /\ vault' = [vault EXCEPT ![i] = vaultLock(@).v]
    /\ ui' = [ui EXCEPT ![i].vaultLocked = TRUE, ![i].lockedByUser = TRUE]
    /\ last' = Call("appLock", i, "", "", NoData, Ok(NoData))
    /\ UNCHANGED <<db, repo, sync, remote, fs, ssh>>

\* VaultView.handleUnlock: the unlock form, shown while the store says locked
HandleUnlock(i) ==
    /\ ui[i].vaultLocked
    /\ \E password \in FormPasswords, fresh \in Salts, w \in WriteOutcomes :
        LET r == vaultInit(vault[i], password, fresh, w)
        IN  /\ vault' = [vault EXCEPT ![i] = r.v]
            /\ ui' = [ui EXCEPT ![i].vaultLocked = IF r.res.success THEN FALSE ELSE @,
                                ![i].lockedByUser = IF r.res.success THEN FALSE ELSE @]
            /\ last' = Call("handleUnlock", i, password, "", NoData, r.res)
    /\ UNCHANGED <<db, repo, sync, remote, fs, ssh>>

\* res.error === 'Vault locked' || res.error === 'Vault must be unlocked first'
RetryErrors == {"Vault locked", "Vault must be unlocked first"}

\* App.handlePasswordSubmit: vault:save-credential and, when it reports a
\* locked vault, vault:init with the default password and a second
\* vault:save-credential
HandlePasswordSubmit(i) ==
    /\ \E hostId \in HostIds, password \in HostPasswords, now \in Times,
          nonce \in Nonces, fresh \in Salts, w \in WriteOutcomes :
           LET first == saveCredential(vault[i], hostId, password, "root", now, nonce, w)
               unlockRes == vaultInit(first.v, DefaultPassword, fresh, w)
               second == saveCredential(unlockRes.v, hostId, password, "root", now, nonce, w)
               retried == ~first.res.success /\ first.res.error \in RetryErrors
               res == IF retried /\ unlockRes.res.success THEN second.res ELSE first.res
           IN  /\ vault' = [vault EXCEPT ![i] =
                               IF ~retried THEN first.v
                               ELSE IF unlockRes.res.success THEN second.v ELSE unlockRes.v]
               /\ ui' = [ui EXCEPT
                           ![i].vaultLocked = IF retried /\ unlockRes.res.success THEN FALSE ELSE @,
                           ![i].written = IF res.success THEN @ \cup {hostId} ELSE @]
               /\ last' = Call("handlePasswordSubmit", i, "", hostId, NoData, res)
    /\ UNCHANGED <<db, repo, sync, remote, fs, ssh>>

\* let currentData = { secrets: [], hosts: {} }, then the merge with what
\* vault:load returned
currentDataOf(currentRes) ==
    IF currentRes.success /\ currentRes.data.t = "array"
    THEN MkDoc("object", TRUE, {}, currentRes.data.secrets)
    ELSE IF currentRes.success /\ currentRes.data.t = "object"
    THEN MkDoc("object", TRUE, currentRes.data.hosts, currentRes.data.secrets)
    ELSE MkDoc("object", TRUE, {}, {})

\* VaultView.addCredential up to the result of vault:load; Math.random() gives
\* the new secret an id that is not in use
AddCredentialLoad(i) ==
    /\ ~ui[i].vaultLocked
    /\ ui[i].adding.phase = "idle"
    /\ \E id \in SecretIds :
        /\ id \notin ui[i].written
        /\ ui' = [ui EXCEPT ![i].adding =
                      [phase |-> "loaded", id |-> id,
                       currentData |-> currentDataOf(vaultLoad(vault[i]))]]
    /\ last' = Call("load", i, "", "", NoData, vaultLoad(vault[i]))
    /\ UNCHANGED <<vault, db, repo, sync, remote, fs, ssh>>

\* VaultView.addCredential from vault:save on
AddCredentialSave(i) ==
    /\ ui[i].adding.phase = "loaded"
    /\ \E nonce \in Nonces, w \in WriteOutcomes :
        LET finalData == [ui[i].adding.currentData EXCEPT
                            !.secrets = @ \cup {ui[i].adding.id}]
            r == vaultSave(vault[i], finalData, nonce, w)
        IN  /\ vault' = [vault EXCEPT ![i] = r.v]
            /\ ui' = [ui EXCEPT
                        ![i].adding = NotAdding,
                        ![i].written = IF r.res.success THEN @ \cup {ui[i].adding.id} ELSE @]
            /\ last' = Call("save", i, "", "", finalData, r.res)
    /\ UNCHANGED <<db, repo, sync, remote, fs, ssh>>

AppNext(i) ==
    \/ AppInitVault(i)
    \/ AppLock(i)
    \/ HandleUnlock(i)
    \/ HandlePasswordSubmit(i)
    \/ AddCredentialLoad(i)
    \/ AddCredentialSave(i)
    \/ ChangePassword(i)

---------------------------------------------------------------------------
(* SSHSessionManager: sessions, streams and sftpSessions are keyed by the  *)
(* session id the renderer chose; a Client object is known to its own      *)
(* event handlers only through the id captured by connect().  Clients are  *)
(* numbered in the order connect() created them.  The field torn of a      *)
(* client is history: which call of disconnect removed an entry of it.     *)

SessionIds == {"s1"}

Conns == 1..MaxConns

NoTear == [by |-> "none", conn |-> 0, resolved |-> FALSE]

ByIpc == [by |-> "ipc", conn |-> 0]

ByEvent(c) == [by |-> "event", conn |-> c]

NoClient == [id |-> "s1", st |-> "none", shell |-> "none", sftp |-> "none",
             timer |-> "none", promise |-> "none", torn |-> NoTear]

NoSsh ==
    [sessions     |-> [id \in SessionIds |-> 0],
     streams      |-> [id \in SessionIds |-> 0],
     sftpSessions |-> [id \in SessionIds |-> 0],
     conns        |-> [c \in Conns |-> NoClient]]

\* the entries of id that belong to client c
EntriesOf(s, id, c) ==
    {m \in {"sessions", "streams", "sftpSessions"} : s[m][id] = c}

\* disconnect(id): ends and deletes whatever is registered under id
disconnect(s, id, cause) ==
    LET stream == s.streams[id]
        sftp == s.sftpSessions[id]
        conn == s.sessions[id]
        Tear(c, cl) ==
            IF EntriesOf(s, id, c) # {} /\ cl.torn.by = "none"
            THEN [by |-> cause.by, conn |-> cause.conn,
                  resolved |-> cl.promise = "resolved"]
            ELSE cl.torn
    IN  [sessions     |-> [s.sessions EXCEPT ![id] = 0],
         streams      |-> [s.streams EXCEPT ![id] = 0],
         sftpSessions |-> [s.sftpSessions EXCEPT ![id] = 0],
         conns        |->
            [c \in Conns |->
                [s.conns[c] EXCEPT
                    !.st    = IF c = conn /\ @ = "ready" THEN "ended" ELSE @,
                    !.shell = IF c = stream /\ @ = "open" THEN "ended" ELSE @,
                    !.sftp  = IF c = sftp /\ @ = "open" THEN "ended" ELSE @,
                    !.torn  = Tear(c, s.conns[c])]]]

SshUnchanged == UNCHANGED <<vault, db, repo, sync, remote, fs, ui, last>>

\* ssh:connect -> connect(id, config, window): const conn = new Client()
SshConnect(id) ==
    /\ \E c \in Conns :
        /\ ssh.conns[c].st = "none"
        /\ \A d \in Conns : d < c => ssh.conns[d].st # "none"
        /\ ssh' = [ssh EXCEPT !.conns[c] =
                      [NoClient EXCEPT !.id = id, !.st = "connecting",
                                       !.timer = "armed",
                                       !.promise = "pending"]]
    /\ SshUnchanged

\* the 30 s timer of connect(): conn.end(); reject
ConnTimeout(c) ==
    /\ ssh.conns[c].timer = "armed"
    /\ ssh' = [ssh EXCEPT
            !.conns[c].timer = "fired",
            !.conns[c].st = IF @ \in {"connecting", "ready"} THEN "ended" ELSE @,
            !.conns[c].promise = IF @ = "pending" THEN "rejected" ELSE @]
    /\ SshUnchanged

\* conn.on('ready'): clearTimeout; this.sessions.set(id, conn); conn.shell(...)
ConnReady(c) ==
    /\ ssh.conns[c].st = "connecting"
    /\ ssh' = [ssh EXCEPT !.sessions[ssh.conns[c].id] = c,
                          !.conns[c].st = "ready",
                          !.conns[c].timer = "cleared",
                          !.conns[c].shell = "pending"]
    /\ SshUnchanged

\* the callback of conn.shell without err: this.streams.set(id, stream);
\* resolve()
ShellOpened(c) ==
    /\ ssh.conns[c].st = "ready"
    /\ ssh.conns[c].shell = "pending"
    /\ ssh' = [ssh EXCEPT !.streams[ssh.conns[c].id] = c,
                          !.conns[c].shell = "open",
                          !.conns[c].promise =
                              IF @ = "pending" THEN "resolved" ELSE @]
    /\ SshUnchanged

\* the callback of conn.shell with err: this.disconnect(id); reject(err)
ShellFailed(c) ==
    /\ ssh.conns[c].shell = "pending"
    /\ ssh' = [disconnect(ssh, ssh.conns[c].id, ByEvent(c))
                  EXCEPT !.conns[c].shell = "closed",
                         !.conns[c].promise =
                             IF @ = "pending" THEN "rejected" ELSE @]
    /\ SshUnchanged

\* stream.on('close'): send ssh:closed:id; this.disconnect(id)
StreamClose(c) ==
    /\ ssh.conns[c].shell \in {"open", "ended"}
    /\ ssh' = [disconnect(ssh, ssh.conns[c].id, ByEvent(c))
                  EXCEPT !.conns[c].shell = "closed"]
    /\ SshUnchanged

\* conn.on('error'): clearTimeout; this.disconnect(id); reject(err)
ConnError(c) ==
    /\ ssh.conns[c].st \in {"connecting", "ready"}
    /\ ssh' = [disconnect(ssh, ssh.conns[c].id, ByEvent(c))
                  EXCEPT !.conns[c].st = "ended",
                         !.conns[c].timer = "cleared",
                         !.conns[c].promise =
                             IF @ = "pending" THEN "rejected" ELSE @]
    /\ SshUnchanged

\* conn.on('end'): this.disconnect(id)
ConnEnd(c) ==
    /\ ssh.conns[c].st \in {"connecting", "ready"}
    /\ ssh' = [disconnect(ssh, ssh.conns[c].id, ByEvent(c))
                  EXCEPT !.conns[c].st = "ended"]
    /\ SshUnchanged

\* conn.on('close'): this.disconnect(id); the client's channels close with it
ConnClose(c) ==
    /\ ssh.conns[c].st \in {"connecting", "ready", "ended"}
    /\ LET s == disconnect(ssh, ssh.conns[c].id, ByEvent(c))
       IN  ssh' = [s EXCEPT
                !.conns[c].st = "closed",
                !.conns[c].shell = IF @ = "open" THEN "ended" ELSE @,
                !.conns[c].sftp = IF @ = "open" THEN "ended" ELSE @]
    /\ SshUnchanged

\* ipcMain.on('ssh:disconnect'): this.disconnect(id)
SshDisconnect(id) ==
    /\ ssh.sessions[id] # 0 \/ ssh.streams[id] # 0 \/ ssh.sftpSessions[id] # 0
    /\ ssh' = disconnect(ssh, id, ByIpc)
    /\ SshUnchanged

\* getSFTP(id) with no cached wrapper: conn.sftp(...) without err
GetSFTP(id) ==
    /\ ssh.sessions[id] # 0
    /\ ssh.sftpSessions[id] = 0
    /\ ssh.conns[ssh.sessions[id]].st = "ready"
    /\ ssh.conns[ssh.sessions[id]].sftp = "none"
    /\ ssh' = [ssh EXCEPT !.sftpSessions[id] = ssh.sessions[id],
                          !.conns[ssh.sessions[id]].sftp = "open"]
    /\ SshUnchanged

\* sftp.on('close'): this.sftpSessions.delete(id)
SftpClose(c) ==
    /\ ssh.conns[c].sftp \in {"open", "ended"}
    /\ ssh' = [ssh EXCEPT !.sftpSessions[ssh.conns[c].id] = 0,
                          !.conns[c].sftp = "closed"]
    /\ SshUnchanged

SshNext ==
    \/ \E id \in SessionIds : SshConnect(id)
    \/ \E id \in SessionIds : SshDisconnect(id)
    \/ \E id \in SessionIds : GetSFTP(id)
    \/ \E c \in Conns : ConnTimeout(c)
    \/ \E c \in Conns : ConnReady(c)
    \/ \E c \in Conns : ShellOpened(c)
    \/ \E c \in Conns : ShellFailed(c)
    \/ \E c \in Conns : StreamClose(c)
    \/ \E c \in Conns : ConnError(c)
    \/ \E c \in Conns : ConnEnd(c)
    \/ \E c \in Conns : ConnClose(c)
    \/ \E c \in Conns : SftpClose(c)

---------------------------------------------------------------------------
(* Specifications *)

\* one fresh installation and its vault
Init ==
    /\ vault = [i \in Instances |-> FreshVault]
    /\ db = [i \in Instances |-> EmptyDb]
    /\ repo = [i \in Instances |-> NoRepo]
    /\ sync = [k \in Slots |-> IdleSync]
    /\ remote = NoCommit
    /\ fs = [faults |-> FALSE]
    /\ ui = [i \in Instances |-> IdleUi]
    /\ ssh = NoSsh
    /\ last = NoCall

Next == VaultNext("A")

Spec == Init /\ [][Next]_vars

\* the SSH session manager of one installation, nothing else running
SpecSsh == Init /\ [][SshNext]_vars

\* A vault that was unlocked with password and salt and holds doc (vault:init
\* on a fresh installation, then vault:save-credential), or holds no file yet
UsedVault(password, salt, docs) ==
    { MkVault(crypto_pwhash(password, salt), f, MetaFile(salt)) :
        f \in {NoFile} \cup {SealedFile(d, 1, crypto_pwhash(password, salt)) : d \in docs} }

DocOf(i) == MkDoc("object", TRUE, {Credential("hostA", "root", "x", 1)}, {})

\* Two installations sharing one empty remote.  A has been in use (db:add-host,
\* db:save-snippet, a saved credential); B is a second machine, fresh or in use,
\* unlocked with the same master password under its own salt.
SyncInit ==
    /\ \E sB \in Salts, usedB \in BOOLEAN :
        /\ vault = [i \in Instances |->
                      IF i = "A"
                      THEN MkVault(crypto_pwhash("old", 1),
                                   SealedFile(DocOf("A"), 1, crypto_pwhash("old", 1)),
                                   MetaFile(1))
                      ELSE MkVault(crypto_pwhash("old", sB), NoFile, MetaFile(sB))]
        /\ db = [i \in Instances |->
                   IF i = "A"
                   THEN MkDb({Row("r1", "A")}, {Row("r1", "A")}, NoSettings, {})
                   ELSE IF usedB
                   THEN MkDb({Row("r1", "B"), Row("r2", "B")}, {Row("r2", "B")},
                             NoSettings, {})
                   ELSE EmptyDb]
    /\ repo = [i \in Instances |-> NoRepo]
    /\ sync = [k \in Slots |-> IdleSync]
    /\ remote = NoCommit
    /\ fs = [faults |-> FALSE]
    /\ ui = [i \in Instances |-> [IdleUi EXCEPT !.vaultLocked = FALSE]]
    /\ ssh = NoSsh
    /\ last = NoCall

SyncSpecNext == \E i \in Instances : SyncNext(i)

SpecSync == SyncInit /\ [][SyncSpecNext]_vars

\* the awaited steps of runSync in slot k
SyncSteps(k) ==
    \/ SyncRepoInit(k)
    \/ SyncProbe(k)
    \/ SyncPull(k)
    \/ SyncImportExport(k)
    \/ SyncCommit(k)
    \/ SyncPush(k)

\* Installation A syncing, every git and file operation it awaits returning
FairNext == SyncNext("A")

SpecSyncFair == SyncInit /\ [][FairNext]_vars /\ WF_vars(SyncSteps("A"))

\* await git.listServerRefs / git.pull / git.push on a connection that never
\* answers: the promise is never settled, and nothing in runSync settles it
NetworkHang(k) ==
    /\ \/ sync[k].pc = "probe"
       \/ sync[k].pc = "pull" /\ sync[k].remoteHasData /\ sync[k].mode # "push"
       \/ sync[k].pc = "push"
    /\ sync' = [sync EXCEPT ![k].pc = "hung"]
    /\ UNCHANGED <<vault, db, repo, remote, fs, ui, last, ssh>>

\* Installation A syncing over a network whose calls may never complete; the
\* steps that can be taken are taken
HangNext == SyncNext("A") \/ NetworkHang("A")

SpecHangFair == SyncInit /\ [][HangNext]_vars /\ WF_vars(SyncSteps("A") \/ SyncReturn("A"))

\* tokens, usernames and URLs of the Sync view's form
AuthTokens == {<<"t">>, <<" ", "s", " ">>}
AuthUsers == {NoStr, Str(<<>>), Str(<<" ">>), Str(<<"u", " ">>), Str(<<"v">>)}
AuthUrls == {<<"https://", "github", ".com/r">>, <<"https://", "gitlab", ".com/r">>,
             <<"https://", "GitLab", ".example/r">>}

\* a network call of installation k creates its auth callback
GetOnAuth(k) ==
    /\ ~sync[k].auth.made
    /\ \E token \in AuthTokens, explicitUsername \in AuthUsers :
        sync' = [sync EXCEPT ![k].auth = getOnAuth(token, explicitUsername)]
    /\ UNCHANGED <<vault, db, repo, remote, fs, ui, last, ssh>>

\* the git library asks the callback for credentials, for the URL of the call
OnAuth(k) ==
    /\ sync[k].auth.made
    /\ sync[k].auth.attempts < MaxAuthCalls
    /\ \E url \in AuthUrls :
        /\ sync[k].auth.attempts > 0 => url = sync[k].auth.url
        /\ sync' = [sync EXCEPT ![k].auth = onAuth(sync[k].auth, url)]
    /\ UNCHANGED <<vault, db, repo, remote, fs, ui, last, ssh>>

AuthNext == GetOnAuth("A") \/ OnAuth("A")

SpecAuth == SyncInit /\ [][AuthNext]_vars

\* Installation A syncing from its Sync view, which the user may leave and reopen
OverlapNext ==
    \/ SyncViewMount("A")
    \/ \E k \in {"A", "A2"} :
        \/ HandleSyncAction(k)
        \/ SyncRepoInit(k)
        \/ SyncProbe(k)
        \/ SyncPull(k)
        \/ SyncImportExport(k)
        \/ SyncCommit(k)
        \/ SyncPush(k)
        \/ HandleSyncReturn(k)

SpecOverlap == SyncInit /\ [][OverlapNext]_vars

\* The two installations on a file system whose writes may fail.  A's vault is
\* intact or is what a vault:change-password whose second write failed left.
SyncInitFaults ==
    /\ \E sB \in Salts, failedChange \in BOOLEAN :
        LET intact == MkVault(crypto_pwhash("old", 1),
                              SealedFile(DocOf("A"), 1, crypto_pwhash("old", 1)),
                              MetaFile(1))
        IN  vault = [i \in Instances |->
                       IF i = "B"
                       THEN MkVault(crypto_pwhash("old", sB), NoFile, MetaFile(sB))
                       ELSE IF failedChange
                       THEN changePassword(intact, "new", 2, 1, TRUE, FALSE).v
                       ELSE intact]
    /\ db = [i \in Instances |->
               IF i = "A" THEN MkDb({Row("r1", "A")}, {Row("r1", "A")}, NoSettings, {})
               ELSE EmptyDb]
    /\ repo = [i \in Instances |-> NoRepo]
    /\ sync = [k \in Slots |-> IdleSync]
    /\ remote = NoCommit
    /\ fs = [faults |-> TRUE]
    /\ ui = [i \in Instances |-> [IdleUi EXCEPT !.vaultLocked = FALSE]]
    /\ ssh = NoSsh
    /\ last = NoCall

SpecSyncFaults == SyncInitFaults /\ [][SyncSpecNext]_vars

\* The two installations syncing while vault:lock may be handled at any await
\* of runSync (the lock button, the inactivity timer)
SyncLockNext == \E i \in Instances : SyncNext(i) \/ VaultLock(i)

SpecSyncLock == SyncInit /\ [][SyncLockNext]_vars

\* Installation A as its window drives it, from the start of the process
AppSpecNext == AppNext("A")

SpecApp == Init /\ [][AppSpecNext]_vars

\* one installation that has no vault file or an empty one (a write that was
\* cut short after the file was opened for writing)
InitEmptyFile ==
    /\ \E f \in {NoFile, EmptyText} :
        vault = [i \in Instances |-> MkVault(NoKey, f, NoFile)]
    /\ db = [i \in Instances |-> EmptyDb]
    /\ repo = [i \in Instances |-> NoRepo]
    /\ sync = [k \in Slots |-> IdleSync]
    /\ remote = NoCommit
    /\ fs = [faults |-> FALSE]
    /\ ui = [i \in Instances |-> IdleUi]
    /\ ssh = NoSsh
    /\ last = NoCall

SpecEmptyFile == InitEmptyFile /\ [][Next]_vars

\* one fresh installation on a file system whose writes may fail
InitFaults ==
    /\ vault = [i \in Instances |-> FreshVault]
    /\ db = [i \in Instances |-> EmptyDb]
    /\ repo = [i \in Instances |-> NoRepo]
    /\ sync = [k \in Slots |-> IdleSync]
    /\ remote = NoCommit
    /\ fs = [faults |-> TRUE]
    /\ ui = [i \in Instances |-> IdleUi]
    /\ ssh = NoSsh
    /\ last = NoCall

SpecFaults == InitFaults /\ [][Next]_vars

\* an envelope whose ciphertext was changed on disk: no key opens it
Tampered(file) ==
    JSONstringify([JSONparse(file) EXCEPT !.ciphertext.key = NoKey])

\* vault files that were damaged on disk, and the intact one: changed
\* ciphertext, a file cut short, a JSON object without nonce and ciphertext
DamagedFiles ==
    LET intact == SealedFile(DocOf("A"), 1, crypto_pwhash("old", 1))
    IN  {intact, Tampered(intact), Garbage, JSONstringify(EmptyObject)}

\* Installation A with a persisted salt and such a vault file, locked or with
\* the key of its password in memory
InitDamaged ==
    /\ \E f \in DamagedFiles, locked \in BOOLEAN :
        vault = [i \in Instances |->
                   IF i = "A"
                   THEN MkVault(IF locked THEN NoKey ELSE crypto_pwhash("old", 1),
                                f, MetaFile(1))
                   ELSE FreshVault]
    /\ db = [i \in Instances |-> EmptyDb]
    /\ repo = [i \in Instances |-> NoRepo]
    /\ sync = [k \in Slots |-> IdleSync]
    /\ remote = NoCommit
    /\ fs = [faults |-> FALSE]
    /\ ui = [i \in Instances |-> IdleUi]
    /\ ssh = NoSsh
    /\ last = NoCall

SpecDamaged == InitDamaged /\ [][Next]_vars

\* record stores of installation A before an import, and the record stores a
\* payload of installation B carries
TablesOf(i, ids) == { {Row(id, i) : id \in S} : S \in ids }

LocalDbs ==
    { MkDb(h, sn, st, rc) :
        h \in TablesOf("A", {{}, {"r1"}, {"r1", "r2"}}),
        sn \in TablesOf("A", {{}, {"r1"}}),
        st \in {NoSettings, Settings("light", ""), Settings("light", "tok")},
        rc \in TablesOf("A", {{}, {"r1"}}) }

PayloadDbs ==
    { MkDb(h, sn, st, rc) :
        h \in TablesOf("B", {{}, {"r1"}, {"r1", "r2"}}),
        sn \in TablesOf("B", {{}, {"r1"}}),
        st \in {NoSettings, Settings("dark", "rt")},
        rc \in TablesOf("B", {{}, {"r1"}}) }

PayloadVaults ==
    {EmptyArray, MkDoc("object", TRUE, {Credential("hostB", "root", "x", 1)}, {})}

\* combined payloads and payloads of the legacy format (the record store alone)
ImportPayloads ==
    {CombinedPayload(d, v) : d \in PayloadDbs, v \in PayloadVaults} \cup PayloadDbs

InitImport ==
    /\ \E d \in LocalDbs :
        db = [i \in Instances |-> IF i = "A" THEN d ELSE EmptyDb]
    /\ vault = [i \in Instances |->
                  IF i = "A"
                  THEN MkVault(crypto_pwhash("old", 1),
                               SealedFile(DocOf("A"), 1, crypto_pwhash("old", 1)),
                               MetaFile(1))
                  ELSE FreshVault]
    /\ repo = [i \in Instances |-> NoRepo]
    /\ sync = [k \in Slots |-> IdleSync]
    /\ remote = NoCommit
    /\ fs = [faults |-> FALSE]
    /\ ui = [i \in Instances |-> [IdleUi EXCEPT !.vaultLocked = FALSE]]
    /\ ssh = NoSsh
    /\ last = NoCall

\* step 5 of runSync on a payload file sealed under the key in memory, in the
\* first run of runSync and in the run after a self-heal
ImportPayload(i) ==
    /\ sync[i].attempts < 2
    /\ \E payload \in ImportPayloads, n \in Nonces :
        LET encFile == SealedFile(payload, n, vault[i].masterKey)
            imp == importStep(db[i], vault[i], encFile, "merge", n, TRUE)
        IN  /\ db' = [db EXCEPT ![i] = imp.db]
            /\ vault' = [vault EXCEPT ![i] = imp.v]
            /\ sync' = [sync EXCEPT ![i].attempts = @ + 1, ![i].dbBefore = db[i],
                                    ![i].imported = imp.imported,
                                    ![i].encBefore = encFile,
                                    ![i].vaultBefore = vault[i]]
    /\ UNCHANGED <<repo, remote, fs, ui, last, ssh>>

ImportNext == ImportPayload("A")

SpecImport == InitImport /\ [][ImportNext]_vars

\* Installation A cloning the remote and syncing with it
CloneNext == GitClone("A") \/ SyncNext("A")

SpecClone == SyncInit /\ [][CloneNext]_vars

---------------------------------------------------------------------------
(* Properties of the vault (specification Spec) *)

Sealed(file) == JSONparses(file) /\ JSONparse(file).t = "envelope"

SealKey(file) == JSONparse(file).ciphertext.key

PersistedSalt(metaFile) == JSONparse(metaFile).salt

\* the VaultDocument a vault value holds: what decryptVault returns under its key
Document(v) == decryptVault(v.masterKey, v.vaultFile)

\* C1: decrypting under the key in memory an envelope that encryptData made from
\* a JSON document under that key succeeds and returns the document; a JSON
\* document written by vault:save or saveDirect is what vault:load and loadDirect
\* return while the key is the same.
C1_RoundTrip ==
    /\ \A D \in DataInputs, n \in Nonces :
        ( /\ last.op = "decryptData"
          /\ IsJSON(D)
          /\ encryptData(last.pre.masterKey, D, n).success
          /\ last.data = encryptData(last.pre.masterKey, D, n).data )
        => last.res = Ok(D)
    /\ ( last.op \in {"save", "saveDirect"} /\ last.res.success /\ IsJSON(last.data) )
        => /\ vaultLoad(vault[last.inst]) = Ok(last.data)
           /\ loadDirect(vault[last.inst]) = Ok(last.data)

C1_Witness ==
    /\ last.op = "decryptData"
    /\ last.res.success
    /\ last.res.data.t = "payload"
    /\ last.data.ciphertext.key = last.pre.masterKey

\* C2: vault:init with a password P2, when the envelope on disk is sealed under
\* the key derived from another password P1 and the persisted salt, fails and
\* leaves the vault locked.
C2_WrongPasswordFails ==
    \A P1 \in Passwords :
        ( /\ last.op = "init"
          /\ Sealed(last.pre.vaultFile)
          /\ MetaHasSalt(last.pre.metaFile)
          /\ SealKey(last.pre.vaultFile)
               = crypto_pwhash(P1, PersistedSalt(last.pre.metaFile))
          /\ last.pw # P1 )
        => /\ ~last.res.success
           /\ vault[last.inst].masterKey = NoKey

C2_Witness ==
    /\ last.op = "init"
    /\ Sealed(last.pre.vaultFile)
    /\ MetaHasSalt(last.pre.metaFile)
    /\ SealKey(last.pre.vaultFile) = crypto_pwhash("old", PersistedSalt(last.pre.metaFile))
    /\ last.pw = "new"
    /\ ~last.res.success

KeyOps == {"getCredential", "saveCredential", "save", "load", "changePassword",
           "encryptData", "decryptData", "saveDirect", "loadDirect"}

LockedErrors == {"Vault locked", "Vault Locked", "Vault must be unlocked first"}

\* C3: while the vault is locked, every operation that needs the key fails with
\* a vault-locked error and leaves the vault file, the salt file and the lock
\* as they were.
C3_LockedOpsFail ==
    ( last.op \in KeyOps /\ last.pre.masterKey = NoKey )
    => /\ ~last.res.success
       /\ last.res.error \in LockedErrors
       /\ vault[last.inst] = last.pre

C3_Witness ==
    /\ last.op = "save"
    /\ last.pre.masterKey = NoKey
    /\ Sealed(last.pre.vaultFile)
    /\ IsJSON(last.data)

C5_NewPasswordUnlocks ==
    ( last.op = "changePassword" /\ last.res.success )
    => \A fresh \in Salts :
         LET r == vaultInit(vaultLock(vault[last.inst]).v, last.pw, fresh, TRUE)
         IN  /\ r.res.success
             /\ Document(r.v) = Document(last.pre)

C5_Witness ==
    /\ last.op = "changePassword"
    /\ last.res.success
    /\ last.pw # last.pre.masterKey.pw
    /\ Document(last.pre).data.hosts # {}

\* C6: after a successful vault:change-password to a different password,
\* vault:init with the old password fails with the authentication error and
\* leaves the vault locked.
C6_OldPasswordFails ==
    ( last.op = "changePassword" /\ last.res.success /\ last.pw # last.pre.masterKey.pw )
    => \A fresh \in Salts, locked \in BOOLEAN :
         LET v == IF locked THEN vaultLock(vault[last.inst]).v ELSE vault[last.inst]
             r == vaultInit(v, last.pre.masterKey.pw, fresh, TRUE)
         IN  /\ Sealed(v.vaultFile)
             /\ ~r.res.success
             /\ r.res.error = "Invalid Master Password (or corrupted vault)"
             /\ r.v.masterKey = NoKey

C6_Witness ==
    /\ last.op = "changePassword"
    /\ last.res.success
    /\ last.pre.masterKey.pw = "old"
    /\ last.pw = "new"
    /\ Sealed(last.pre.vaultFile)

---------------------------------------------------------------------------
(* Properties of the sync (specification SpecSync) *)

\* the plaintext a sealed file holds
SealedValue(file) == JSONparse(JSONparse(file).ciphertext.msg)

\* C7: when A's push to the empty remote is followed by a pull on B, a fresh
\* second installation unlocked with the same master password whose pull
\* fetched A's commit, B holds A's VaultDocument and RecordStoreExport as they
\* were pushed.
C7_PushThenPullReproduces ==
    ( /\ sync["B"].pc = "done"
      /\ sync["B"].mode = "pull"
      /\ sync["B"].dbBefore = EmptyDb
      /\ sync["B"].remoteAtStart = remote
      /\ remote.by = "A"
      /\ remote.mode = "push"
      /\ ~remote.remoteHasData
      /\ repo["B"].enc = remote.enc
      /\ vault["B"].masterKey.pw = SealKey(remote.enc).pw )
    => /\ exportData(db["B"]) = SealedValue(remote.enc).db
       /\ Document(vault["B"]) = Ok(SealedValue(remote.enc).vault)

\* what an import handed to importData
ImportedDb(imported) == IF IsCombined(imported) THEN imported.db ELSE imported

LocalOnly(before, incoming) == {row \in before : row.id \notin Ids(incoming)}

RemoteOnly(before, incoming) == {row \in incoming : row.id \notin Ids(before)}

\* C8: after the import of a merge sync, every host and snippet that was only
\* in the local record store and every host and snippet that was only in the
\* payload is in the local record store.
C8_MergeKeepsLocalOnly ==
    \A i \in Instances :
        ( sync[i].mode = "merge" /\ sync[i].imported # NoData
          /\ ImportedDb(sync[i].imported).t = "db" )
        => /\ LocalOnly(sync[i].dbBefore.hosts, ImportedDb(sync[i].imported).hosts)
                \subseteq db[i].hosts
           /\ RemoteOnly(sync[i].dbBefore.hosts, ImportedDb(sync[i].imported).hosts)
                \subseteq db[i].hosts
           /\ LocalOnly(sync[i].dbBefore.snippets, ImportedDb(sync[i].imported).snippets)
                \subseteq db[i].snippets
           /\ RemoteOnly(sync[i].dbBefore.snippets, ImportedDb(sync[i].imported).snippets)
                \subseteq db[i].snippets

C8_Witness ==
    \E i \in Instances :
        /\ sync[i].mode = "merge"
        /\ sync[i].pc = "done"
        /\ sync[i].imported # NoData
        /\ LocalOnly(sync[i].dbBefore.hosts, ImportedDb(sync[i].imported).hosts) # {}
        /\ RemoteOnly(sync[i].dbBefore.snippets, ImportedDb(sync[i].imported).snippets) # {}

\* C9: within one git:sync call runSync is entered at most twice and SYNC_DIR
\* is wiped at most once, and a corruption-signature failure of the second
\* attempt is returned as the failure of the call.
C9_SelfHealOnce ==
    \A i \in Instances :
        /\ sync[i].attempts <= 2
        /\ sync[i].wipes <= 1
        /\ sync[i].attempts = 2 => (sync[i].wipes = 1 /\ ~sync[i].retry)
        /\ ( sync[i].pc = "failed" /\ sync[i].attempts = 2 /\ SelfHealable(sync[i].error) )
            => sync[i].result = Fail(sync[i].error)

C9_Witness ==
    \E i \in Instances :
        /\ sync[i].pc = "failed"
        /\ sync[i].attempts = 2
        /\ SelfHealable(sync[i].error)
        /\ repo[i].git

\* a file of the repository is absent or an envelope sealed under a derived key
EncryptedOnly(file) ==
    \/ file = NoFile
    \/ /\ Sealed(file)
       /\ SealKey(file) \in Keys
       /\ JSONparse(file).nonce = JSONparse(file).ciphertext.nonce

\* C10: the payload file in every working tree, in every commit and on the
\* remote is absent or an {nonce, ciphertext} envelope, and the file a sync has
\* just written is the whole SyncPayload sealed under the master key in memory.
C10_PayloadEncrypted ==
    /\ EncryptedOnly(remote.enc)
    /\ \A i \in Instances :
        /\ EncryptedOnly(repo[i].enc)
        /\ EncryptedOnly(repo[i].head.enc)
        /\ sync[i].pc = "commit"
            => /\ vault[i].masterKey # NoKey
               /\ sync[i].exported = exportPayload(db[i], vault[i])
               /\ decryptData(vault[i].masterKey, JSONparse(repo[i].enc))
                    = Ok(StripValue(sync[i].exported))

C10_Witness ==
    /\ remote # NoCommit
    /\ \E i \in Instances :
        /\ sync[i].pc = "commit"
        /\ sync[i].mode = "merge"
        /\ sync[i].imported # NoData

\* C13: a sync that pushed did so with force exactly when its mode is push or
\* the remote held no commit; a merge against a remote that holds data pushed
\* without force.
C13_ForceOnlyWhenEmptyOrPush ==
    \A k \in Slots :
        ( sync[k].pc = "done" /\ sync[k].mode # "pull" )
        => ( sync[k].force <=> ( sync[k].mode = "push" \/ sync[k].remoteAtStart = NoCommit ) )

\* the import step of the call in slot k found a payload file that the key in
\* memory does not open
Undecryptable(k) ==
    /\ sync[k].encBefore # NoFile
    /\ sync[k].mode # "push"
    /\ \/ ~JSONparses(sync[k].encBefore)
       \/ ~decryptData(sync[k].vaultBefore.masterKey, JSONparse(sync[k].encBefore)).success

\* C17: after an import step that found a payload file the current key does
\* not open, nothing was imported, the record store and the vault are as they
\* were, a failure of the call is a failure of git, a merge has gone on to
\* export the local data and a pull is done.
C17_UndecryptableSkipsImport ==
    \A k \in Slots :
        Undecryptable(k)
        => /\ sync[k].imported = NoData
           /\ db[Home(k)] = sync[k].dbBefore
           /\ vault[Home(k)] = sync[k].vaultBefore
           /\ sync[k].pc = "failed" => sync[k].error \in GitErrors
           /\ sync[k].mode = "merge"
                => sync[k].exported = exportPayload(sync[k].dbBefore, sync[k].vaultBefore)
           /\ sync[k].mode = "pull" => sync[k].pc = "done"

C17_Witness ==
    \E k \in Slots :
        /\ Undecryptable(k)
        /\ sync[k].mode = "merge"
        /\ sync[k].pc = "done"
        /\ remote.by = Home(k)
        /\ db[Home(k)] # EmptyDb

\* C27: no step of a git:sync in mode 'push' changes the record store or the
\* vault of its installation, and none brings a commit or a payload file of
\* the remote into the working clone: the HEAD commit changes only to a
\* commit made by this run or to none, the payload file only to the export of
\* the local data or to none.
C27_PushNeverImports ==
    [][ \A k \in Slots :
          ( Running(sync[k]) /\ sync[k].mode = "push" )
          => /\ db'[Home(k)] = db[Home(k)]
             /\ vault'[Home(k)] = vault[Home(k)]
             /\ sync'[k].imported = NoData
             /\ repo'[Home(k)].head # repo[Home(k)].head
                  => \/ repo'[Home(k)].head = NoCommit
                     \/ /\ repo'[Home(k)].head.by = Home(k)
                        /\ repo'[Home(k)].head.mode = "push"
             /\ repo'[Home(k)].enc # repo[Home(k)].enc
                  => \/ repo'[Home(k)].enc = NoFile
                     \/ decryptData(vault[Home(k)].masterKey, JSONparse(repo'[Home(k)].enc))
                          = Ok(StripValue(exportPayload(db[Home(k)], vault[Home(k)])))
      ]_vars

C27_Witness ==
    \E k \in Slots :
        /\ sync[k].mode = "push"
        /\ sync[k].pc = "done"
        /\ sync[k].remoteHasData
        /\ sync[k].remoteAtStart.by # Home(k)
        /\ remote.by = Home(k)
        /\ db[Home(k)] # EmptyDb

\* C28: no step of a git:sync in mode 'pull' exports, commits or pushes: the
\* remote stays as it is, nothing is exported, the run never reaches the
\* commit or the push, and the HEAD commit and the payload file of the working
\* clone change only to those of the remote or to none.
C28_PullNeverExports ==
    [][ \A k \in Slots :
          ( Running(sync[k]) /\ sync[k].mode = "pull" )
          => /\ remote' = remote
             /\ sync'[k].exported = NoData
             /\ sync'[k].pc \notin {"commit", "push"}
             /\ repo'[Home(k)].head # repo[Home(k)].head
                  => repo'[Home(k)].head \in {NoCommit, remote}
             /\ repo'[Home(k)].enc # repo[Home(k)].enc
                  => repo'[Home(k)].enc \in {NoFile, remote.enc}
      ]_vars

C28_Witness ==
    \E k \in Slots :
        /\ sync[k].mode = "pull"
        /\ sync[k].pc = "done"
        /\ sync[k].imported # NoData
        /\ db[Home(k)] # sync[k].imported.db
        /\ remote = sync[k].remoteAtStart
        /\ remote.by # Home(k)

\* C29: a pull or merge whose import step found a payload file the key in
\* memory does not open goes on, and the result it ends with is not the plain
\* { success: true } of a sync whose import succeeded.
C29_ImportFailureReported ==
    \A k \in Slots :
        ( Undecryptable(k) /\ sync[k].pc = "done" )
        => sync[k].result # Ok(NoData)

\* the steps of one git:sync call, by the phase before and the phase after
PhaseSteps ==
    { <<"idle", "init">>, <<"idle", "failed">>,
      <<"init", "probe">>, <<"init", "failed">>,
      <<"probe", "pull">>, <<"pull", "import">>,
      <<"import", "commit">>, <<"import", "done">>, <<"import", "init">>,
      <<"import", "failed">>,
      <<"commit", "push">>, <<"commit", "init">>, <<"commit", "failed">>,
      <<"push", "done">>, <<"push", "init">>, <<"push", "failed">>,
      <<"done", "idle">>, <<"failed", "idle">> }

\* C33: a git:sync call moves from the remote check to the pull, the import
\* with the export, the commit and the push, in this order, going back only to
\* start again after a self-heal; the payload a merge exports holds the hosts
\* and snippets it imported; a call about to push has committed the payload
\* file it wrote, and a call that pushed left its HEAD commit on the remote.
C33_PhaseOrder ==
    /\ [][ \A k \in Slots :
              sync'[k].pc # sync[k].pc => <<sync[k].pc, sync'[k].pc>> \in PhaseSteps ]_vars
    /\ [](\A k \in Slots :
            /\ ( /\ sync[k].mode = "merge"
                 /\ sync[k].exported # NoData
                 /\ sync[k].imported # NoData
                 /\ ImportedDb(sync[k].imported).t = "db" )
               => /\ ImportedDb(sync[k].imported).hosts \subseteq sync[k].exported.db.hosts
                  /\ ImportedDb(sync[k].imported).snippets
                       \subseteq sync[k].exported.db.snippets
            /\ sync[k].pc = "push"
               => /\ repo[Home(k)].head # NoCommit
                  /\ repo[Home(k)].head.enc = repo[Home(k)].enc
                  /\ decryptData(sync[k].exportKey, JSONparse(repo[Home(k)].enc))
                       = Ok(StripValue(sync[k].exported))
            /\ ( sync[k].pc = "done" /\ sync[k].mode # "pull" )
               => remote = repo[Home(k)].head)

C33_Witness ==
    \E k \in Slots :
        /\ sync[k].mode = "merge"
        /\ sync[k].pc = "push"
        /\ sync[k].imported # NoData
        /\ sync[k].attempts = 2
        /\ ImportedDb(sync[k].imported).hosts # {}
        /\ sync[k].exported.db.hosts # ImportedDb(sync[k].imported).hosts

\* the host ids with a credential in a document
CredentialIds(doc) == IF doc.t \in {"object", "array"} THEN {e.hostId : e \in doc.hosts} ELSE {}

---------------------------------------------------------------------------
(* Properties of git:sync called from the Sync view (specification          *)
(* SpecOverlap)                                                            *)

\* C14: on every installation at most one git:sync call is running.
C14_OneSyncInFlight ==
    \A i \in Instances :
        Cardinality({k \in Slots : Home(k) = i /\ Running(sync[k])}) <= 1

---------------------------------------------------------------------------
(* Properties of the vault driven by the window (specification SpecApp) *)

\* the host and secret ids a vault document holds
IdsOf(doc) == {e.hostId : e \in doc.hosts} \cup doc.secrets

\* C15: while no addCredential is between its load and its save, every host
\* credential and every secret whose write was reported as saved is in the
\* vault document.
C15_NoLostUpdate ==
    \A i \in Instances :
        ( ui[i].adding.phase = "idle" /\ vault[i].vaultFile # NoFile )
        => ui[i].written \subseteq IdsOf(SealedValue(vault[i].vaultFile))

Finished(s) == s.pc \in {"done", "failed"}

\* C19: every git:sync call that is running reaches done or failed, and a
\* finished call keeps its result until the handler returns it.
C19_SyncTerminates ==
    /\ Running(sync["A"]) ~> Finished(sync["A"])
    /\ [][Finished(sync["A"])
            => \/ sync'["A"] = sync["A"]
               \/ sync'["A"].pc = "idle"]_vars

C19_Witness ==
    \E k \in Instances :
        /\ sync[k].pc = "done"
        /\ sync[k].attempts = 2
        /\ sync[k].result.success

---------------------------------------------------------------------------
(* Properties of the sync on a file system whose writes may fail            *)
(* (specification SpecSyncFaults)                                          *)

\* C16: when the import step of an installation whose vault was readable has
\* applied the db section of a combined payload to the record store, the vault
\* holds the payload's vault section.
C16_ImportBothOrNeither ==
    \A k \in Slots :
        ( /\ sync[k].imported # NoData
          /\ IsCombined(sync[k].imported)
          /\ Document(sync[k].vaultBefore).success )
        => Document(vault[Home(k)]) = Ok(sync[k].imported.vault)

\* C18: a sync that has gathered and written its payload could load the local
\* vault document, and the payload's vault section is that document.
C18_VaultErrorsSurface ==
    \A k \in Slots :
        sync[k].exported # NoData
        => /\ loadDirect(vault[Home(k)]).success
           /\ sync[k].exported.vault = loadDirect(vault[Home(k)]).data

\* C20: from a lock made in the App (the lock button or the inactivity timer)
\* until the unlock form succeeds, the vault is locked.
C20_LockedStaysLocked ==
    \A i \in Instances : ui[i].lockedByUser => status(vault[i]).locked

---------------------------------------------------------------------------
(* Properties of git:clone with git:sync (specification SpecClone) *)

\* C11: the commit the remote holds never contains .git-credentials-cache.json.
C11_CacheStaysLocal == ~remote.cache

---------------------------------------------------------------------------
(* Properties of the vault on a file system whose writes may fail          *)
(* (specification SpecFaults)                                              *)

\* some password of the user unlocks the vault: vault:init succeeds
Unlockable(v) ==
    \E password \in Passwords, fresh \in Salts :
        vaultInit(v, password, fresh, TRUE).res.success

\* C12: when vault:change-password fails on a vault that could be unlocked,
\* the salt and the envelope on disk still match: the vault can be unlocked
\* with the old or the new password.
C12_ChangePasswordAtomic ==
    ( /\ last.op = "changePassword"
      /\ ~last.res.success
      /\ Unlockable(last.pre) )
    => Unlockable(vault[last.inst])

\* C25: a vault:save-credential called with a key in memory on an envelope
\* that the key does not open returns an error and leaves the vault file as
\* it was.
C25_UnreadableNotOverwritten ==
    ( /\ last.op = "saveCredential"
      /\ last.pre.masterKey # NoKey
      /\ ~Document(last.pre).success )
    => /\ ~last.res.success
       /\ vault[last.inst].vaultFile = last.pre.vaultFile

\* C35: whenever a key is in memory and the vault file holds an envelope, the
\* key opens the envelope.
C35_KeyOpensEnvelope ==
    \A i \in Instances :
        ( vault[i].masterKey # NoKey /\ vault[i].vaultFile \notin {NoFile, EmptyText} )
        => Document(vault[i]).success

---------------------------------------------------------------------------
(* Further properties of the vault (specification Spec) *)

\* the key vault:init derives for a vault whose salt is persisted
DerivedKey(v, password) == crypto_pwhash(password, PersistedSalt(v.metaFile))

\* C21: a vault:init whose derived key does not open the envelope on disk
\* returns the invalid-password error and leaves no key in memory, also when
\* a key was in memory before the call.
C21_FailedUnlockLocks ==
    ( /\ last.op = "init"
      /\ last.pre.vaultFile # NoFile
      /\ MetaHasSalt(last.pre.metaFile)
      /\ ~decryptVault(DerivedKey(last.pre, last.pw), last.pre.vaultFile).success )
    => /\ last.res = Fail("Invalid Master Password (or corrupted vault)")
       /\ vault[last.inst].masterKey = NoKey
       /\ status(vault[last.inst]).locked

C21_Witness ==
    /\ last.op = "init"
    /\ ~last.res.success
    /\ last.pre.masterKey # NoKey
    /\ Sealed(last.pre.vaultFile)
    /\ SealKey(last.pre.vaultFile) = last.pre.masterKey

\* C22: after a successful vault:change-password the vault is locked, and
\* vault:get-credential and vault:save-credential fail with a vault-locked
\* error.
C22_ChangePasswordLocks ==
    ( last.op = "changePassword" /\ last.res.success )
    => /\ status(vault[last.inst]).locked
       /\ \A hostId \in HostIds :
            /\ ~getCredential(vault[last.inst], hostId).success
            /\ getCredential(vault[last.inst], hostId).error \in LockedErrors

\* C22 as the code has it: after a successful vault:change-password the key
\* derived from the new password and the new persisted salt is in memory, the
\* vault is unlocked and vault:get-credential and vault:save-credential succeed
\* without a vault:init.
C22_ChangePasswordStaysUnlocked ==
    ( last.op = "changePassword" /\ last.res.success )
    => /\ ~status(vault[last.inst]).locked
       /\ vault[last.inst].masterKey = DerivedKey(vault[last.inst], last.pw)
       /\ \A hostId \in HostIds :
            /\ getCredential(vault[last.inst], hostId).success
            /\ saveCredential(vault[last.inst], hostId, "x", "root", 1, 1, TRUE).res.success

C22_Witness ==
    /\ last.op = "changePassword"
    /\ last.res.success
    /\ last.pre.masterKey # vault[last.inst].masterKey
    /\ Sealed(last.pre.vaultFile)
    /\ getCredential(vault[last.inst], "hostA").data.credential # {}

\* the entry a vault:save-credential call was given
GivenEntry(call) == CHOOSE e \in call.data.hosts : TRUE

OtherHosts(doc, hostId) == {e \in doc.hosts : e.hostId # hostId}

\* C24: after a successful vault:save-credential, vault:get-credential of the
\* host returns the entry given, the document holds one entry for the host,
\* and the entries of the other hosts and the secrets are those of before.
C24_SaveCredentialFrame ==
    ( /\ last.op = "saveCredential"
      /\ last.res.success
      /\ Document(last.pre).success => Document(last.pre).data.t \in {"object", "array"} )
    => /\ Document(last.pre).success
       /\ getCredential(vault[last.inst], last.hostId)
            = Ok([t |-> "credential", credential |-> {StripEntry(GivenEntry(last))}])
       /\ Cardinality(HostEntry(Document(vault[last.inst]).data, last.hostId)) = 1
       /\ OtherHosts(Document(vault[last.inst]).data, last.hostId)
            = OtherHosts(Document(last.pre).data, last.hostId)
       /\ Document(vault[last.inst]).data.secrets = Document(last.pre).data.secrets

C24_Witness ==
    /\ last.op = "saveCredential"
    /\ last.res.success
    /\ Document(last.pre).success
    /\ Document(last.pre).data.t = "object"
    /\ HostEntry(Document(last.pre).data, last.hostId) # {}
    /\ HostEntry(Document(last.pre).data, last.hostId) # {StripEntry(GivenEntry(last))}
    /\ OtherHosts(Document(last.pre).data, last.hostId) # {}
    /\ Document(last.pre).data.secrets # {}

\* C26: an operation that finds a salt persisted leaves the salt file as it
\* is unless it is a successful vault:change-password; a vault:init writes the
\* salt file only when it finds no salt persisted; a successful vault:init on a
\* persisted salt derives the key from the password and that salt, and so does
\* a second vault:init with the same password.
C26_SaltPersists ==
    /\ ( /\ last.op # "none"
         /\ MetaHasSalt(last.pre.metaFile)
         /\ vault[last.inst].metaFile # last.pre.metaFile )
       => ( last.op = "changePassword" /\ last.res.success )
    /\ ( last.op = "init" /\ vault[last.inst].metaFile # last.pre.metaFile )
       => ( ~MetaHasSalt(last.pre.metaFile) /\ MetaHasSalt(vault[last.inst].metaFile) )
    /\ ( last.op = "init" /\ last.res.success /\ MetaHasSalt(last.pre.metaFile) )
       => /\ vault[last.inst].masterKey = DerivedKey(last.pre, last.pw)
          /\ \A fresh \in Salts :
               vaultInit(vault[last.inst], last.pw, fresh, TRUE).v.masterKey
                 = vault[last.inst].masterKey

C26_Witness ==
    /\ last.op = "init"
    /\ last.res.success
    /\ last.pre.masterKey = NoKey
    /\ MetaHasSalt(last.pre.metaFile)
    /\ Sealed(last.pre.vaultFile)
    /\ vault[last.inst].metaFile = last.pre.metaFile
    /\ vault[last.inst].masterKey = crypto_pwhash("new", MaxSalt)

---------------------------------------------------------------------------
(* Properties of the sync with vault:lock in between (specification        *)
(* SpecSyncLock)                                                           *)

\* the error a git:sync call that has just failed returns
FailureOf(s) == s.result.error

\* C30: the working clone is wiped and runSync run again only after a failure
\* with code NotFoundError (a ref or an object that cannot be found); a call
\* that fails with any other error (HTTP, vault locked, missing credentials)
\* returns that error from the step that failed, with the working clone as the
\* step found it, no wipe and no further attempt.
C30_SelfHealOnlyOnCorruption ==
    [][ \A k \in Slots :
          /\ sync'[k].wipes > sync[k].wipes
               => /\ sync'[k].error = "NotFoundError"
                  /\ repo'[Home(k)] = NoRepo
          /\ ( /\ sync[k].pc # "failed"
               /\ sync'[k].pc = "failed"
               /\ FailureOf(sync'[k]) # "NotFoundError" )
               => /\ ~sync'[k].result.success
                  /\ FailureOf(sync'[k])
                       \in {"HttpError", "Vault Locked", "Vault is LOCKED", "Missing Credentials"}
                  /\ repo'[Home(k)] = repo[Home(k)]
                  /\ sync'[k].wipes = sync[k].wipes
                  /\ sync'[k].attempts \in {sync[k].attempts, 0}
          /\ ( Running(sync[k]) /\ sync'[k].error \notin {sync[k].error, "NotFoundError"} )
               => sync'[k].pc = "failed"
      ]_vars

C30_Witness ==
    \E k \in Slots :
        /\ sync[k].pc = "failed"
        /\ FailureOf(sync[k]) = "Vault Locked"
        /\ sync[k].wipes = 0
        /\ sync[k].attempts = 1
        /\ repo[Home(k)].git
        /\ remote # NoCommit

---------------------------------------------------------------------------
(* Properties of the sync over a network whose calls may never complete    *)
(* (specification SpecHangFair)                                            *)

\* C31: a git:sync call that awaits a network call which never completes ends
\* as failed.
C31_HungCallFails ==
    (sync["A"].pc = "hung") ~> (sync["A"].pc = "failed")

---------------------------------------------------------------------------
(* Properties of the auth callback (specification SpecAuth) *)

\* the credentials the callback can return for a URL
CandidatesOf(a, url) == {candidate(a, n, url) : n \in 1..MaxAuthCalls}

\* C32: the callback offers the explicit username with the token first when a
\* username is given, each later offer is one of the fallbacks of the provider,
\* and once it has been asked more often than it has candidates it offers no
\* credentials.
C32_AuthAttemptsCapped ==
    LET a == sync["A"].auth
    IN  a.attempts > 0
        => /\ ( a.attempts = 1 /\ Truthy(a.trimmedUser) )
                => a.offered = Offer(a.trimmedUser.str, a.trimmedToken)
           /\ a.attempts > Cardinality(CandidatesOf(a, a.url)) => a.offered.none

---------------------------------------------------------------------------
(* Properties of a vault whose file was damaged (specification SpecDamaged) *)

\* the envelope the call found is not opened by the key the call used
NotOpened(call) ==
    /\ call.pre.vaultFile \notin {NoFile, EmptyText}
    /\ ~call.res.success
    /\ call.op = "init" \/ call.pre.masterKey # NoKey

\* C34: a vault:init, a vault:load or a vault:get-credential that cannot open
\* the envelope returns one error response, whatever the reason: every failed
\* vault:init returns the same error, and every vault:load and
\* vault:get-credential with a key in memory returns the same error.
C34_OneDecryptionError ==
    /\ ( last.op = "init" /\ NotOpened(last) )
       => last.res = Fail("Invalid Master Password (or corrupted vault)")
    /\ ( last.op \in {"load", "getCredential"} /\ NotOpened(last) )
       => last.res = Fail(VaultDecryptError)

---------------------------------------------------------------------------
(* Properties of the import step (specification SpecImport) *)

\* the rows of table before, after an import of the rows incoming: the rows
\* of incoming, and the rows of before whose id is not in incoming
RemoteWins(before, incoming, after) ==
    /\ incoming \subseteq after
    /\ LocalOnly(before, incoming) \subseteq after
    /\ after \subseteq incoming \cup LocalOnly(before, incoming)
    /\ \A row \in after : Cardinality({r \in after : r.id = row.id}) = 1

C38_ImportIdempotent ==
    \A k \in Slots :
        sync[k].imported # NoData
        => \A n \in Nonces :
             LET again == importStep(db[Home(k)], vault[Home(k)], sync[k].encBefore,
                                     sync[k].mode, n, TRUE)
             IN  /\ again.imported = sync[k].imported
                 /\ again.db = db[Home(k)]
                 /\ Document(again.v) = Document(vault[Home(k)])

C38_Witness ==
    \E k \in Slots :
        /\ sync[k].imported # NoData
        /\ IsCombined(sync[k].imported)
        /\ db[Home(k)] # sync[k].dbBefore
        /\ Document(vault[Home(k)]) # Document(sync[k].vaultBefore)
        /\ sync[k].dbBefore.settings.gitToken # ""
        /\ db[Home(k)].settings # sync[k].dbBefore.settings

\* C39: a git:sync called while the vault is locked fails in the handler, with
\* the working clone, the record store, the vault and the remote as they were;
\* a push or merge whose export step finds the vault locked fails there with
\* the working clone and the remote as they were; a call that is about to
\* commit or push, or has pushed, holds a payload file sealed under the key
\* that was in memory at its export.
C39_LockedNeverExports ==
    /\ [][ \A k \in Slots :
              /\ ( /\ sync[k].pc = "idle"
                   /\ sync'[k].pc # "idle"
                   /\ status(vault[Home(k)]).locked )
                 => /\ sync'[k].pc = "failed"
                    /\ ~sync'[k].result.success
                    /\ <<repo', db', vault', remote'>> = <<repo, db, vault, remote>>
              /\ ( /\ sync[k].pc = "import"
                   /\ sync[k].mode # "pull"
                   /\ sync'[k].pc # "import"
                   /\ status(vault[Home(k)]).locked )
                 => /\ sync'[k].pc = "failed"
                    /\ sync'[k].result = Fail("Vault Locked")
                    /\ <<repo', db', vault', remote'>> = <<repo, db, vault, remote>> ]_vars
    /\ [](\A k \in Slots :
            ( sync[k].pc \in {"commit", "push"} \/ (sync[k].pc = "done" /\ sync[k].mode # "pull") )
            => /\ sync[k].exportKey # NoKey
               /\ Sealed(repo[Home(k)].enc)
               /\ SealKey(repo[Home(k)].enc) = sync[k].exportKey)
    /\ [](remote # NoCommit => ( Sealed(remote.enc) /\ SealKey(remote.enc) # NoKey ))

C39_Witness ==
    \E k \in Slots :
        /\ sync[k].pc = "failed"
        /\ sync[k].mode = "merge"
        /\ sync[k].result = Fail("Vault Locked")
        /\ sync[k].remoteHasData
        /\ repo[Home(k)].enc = remote.enc
        /\ remote = sync[k].remoteAtStart
        /\ db[Home(k)] = sync[k].dbBefore

---------------------------------------------------------------------------
(* Properties of the SSH session manager (specification SpecSsh) *)

\* C40: an end, close or error event of a superseded connection never
\* tears down a newer connection registered under the same session id:
\* once connect() of the newer client has resolved, no entry of that client
\* is removed by disconnect(id) called from a handler of an older client.
C40_SupersededNeverTearsDown ==
    \A c \in Conns :
        ~(/\ ssh.conns[c].torn.by = "event"
          /\ ssh.conns[c].torn.resolved
          /\ ssh.conns[c].torn.conn < c
          /\ ssh.conns[ssh.conns[c].torn.conn].id = ssh.conns[c].id)

---------------------------------------------------------------------------
(* Properties of a vault without an envelope (specification SpecEmptyFile) *)

NoCredential == Ok([t |-> "credential", credential |-> {}])

\* C23: vault:init on a vault whose file is missing or empty succeeds for
\* every password, and the vault then reads as an empty document:
\* vault:get-credential returns no credential for every hostId.
C23_FirstUnlockEmpty ==
    ( last.op = "init" /\ last.pre.vaultFile \in {NoFile, EmptyText} )
    => /\ last.res.success
       /\ ~status(vault[last.inst]).locked
       /\ Document(vault[last.inst]) = Ok(EmptyArray)
       /\ \A hostId \in HostIds : getCredential(vault[last.inst], hostId) = NoCredential

C23_Witness ==
    /\ last.op = "init"
    /\ last.pre.vaultFile = EmptyText
    /\ last.pw = "new"
    /\ vault[last.inst].masterKey # NoKey

====
